---- MODULE Spec2Model ----
(***************************************************************************)
(* A model of the Logs class of src/logs/logger.py: the filter chain, the  *)
(* record pipeline under the logger lock, the sinks (console, file with    *)
(* rotation, buffer), alerts, session recording and the context stack.     *)
(*                                                                         *)
(* Every thread runs a stack of frames, one per call in progress.  A frame *)
(* holds the position in the called method (pc) and its locals.  A method  *)
(* that calls another logging method pushes a frame; the callee pops its   *)
(* frame when it returns.  The outermost frame of a finished call stays at *)
(* pc "done" until Return takes it away, so that the result of a call is a *)
(* state.                                                                  *)
(*                                                                         *)
(* Text is a sequence of tokens.  "ESC" is any ANSI colour code, "ts" any  *)
(* timestamp.  Time is in seconds, file size in lines.                     *)
(***************************************************************************)
EXTENDS Integers, Sequences, FiniteSets, TLC

\* ---------------------------------------------------------------- bounds

\* The clock stops here.
MaxTime == 122
\* The context stack is never deeper than this.
MaxContext == 2
\* At most this many alert handlers are registered for one severity.
MaxHandlers == 2

\* ------------------------------------------------------- LogLevel, LogFormat

TRACE == -1
DEBUG == 0
INFO == 1
SUCCESS == 2
LOADING == 3
PROCESSING == 4
PROGRESS == 5
WAITING == 6
NOTICE == 7
WARN == 8
ERROR == 9
CRITICAL == 10
FATAL == 11
SECURITY == 12

LogLevel == TRACE..SECURITY

LevelName ==
  [l \in LogLevel |->
     CASE l = TRACE -> "TRACE" [] l = DEBUG -> "DEBUG" [] l = INFO -> "INFO"
       [] l = SUCCESS -> "SUCCESS" [] l = LOADING -> "LOADING"
       [] l = PROCESSING -> "PROCESSING" [] l = PROGRESS -> "PROGRESS"
       [] l = WAITING -> "WAITING" [] l = NOTICE -> "NOTICE" [] l = WARN -> "WARN"
       [] l = ERROR -> "ERROR" [] l = CRITICAL -> "CRITICAL" [] l = FATAL -> "FATAL"
       [] OTHER -> "SECURITY"]

LogFormat == {"SIMPLE", "STANDARD", "DETAILED", "JSON"}

\* Two names of the catalog and one free-form string that _log wraps.
Category == {"API", "SYSTEM", "INIT"}

\* ------------------------------------------------------------ threads, time

Threads == {"t1", "t2"}
NoThread == "none"
\* session_start before the first start_session_recording (None)
NoTime == -1

\* ---------------------------------------------------------------- state

VARIABLES
  cfg,                      \* the configuration attributes of Logs
  now,                      \* time.time() / datetime.now()
  lock,                     \* _lock: the thread that holds it, or NoThread
  stack,                    \* per thread: the frames of the calls in progress
  retval,                   \* per thread: what the last finished call returned
  console,                  \* per thread: lines printed by its current call
  emitted,                  \* per thread: records its current call counted
  alerted,                  \* per thread: handler invocations of its current call
  remote_sent,              \* per thread: datagrams its current call sent
  buffer,                   \* _buffer
  last_flush,               \* _last_flush
  session_recording,        \* _session_recording
  session_logs,             \* _session_logs
  session_start,            \* _session_start
  session_calls,            \* the calls of severity entry points while a
                            \* session is recorded, and whether the filter
                            \* chain accepted them
  alert_handlers,           \* _alert_handlers
  alert_cooldown,           \* _alert_cooldown
  rate_limits,              \* _rate_limits
  last_adjust_time,         \* _last_adjust_time
  context_stack,            \* _context_stack
  log_count,                \* _log_count
  category_count,           \* _category_count
  error_count_by_category,  \* _error_count_by_category
  files,                    \* the log file (0) and its backups .1, .2, ...
  gz_files,                 \* the compressed backups .1.gz, .2.gz, ...
  scopes,                   \* per thread: the LogContext scopes it is in, each
                            \* with the context stack at its entry
  configured,               \* the last call of configure: its arguments, the
                            \* attributes it left, and whether it repeated
                            \* the call before it on the attributes that
                            \* call left
  handlers,                 \* _handlers: the record handlers, in order
  handled,                  \* the invocations of record handlers so far
  redaction                 \* a text, and what _redact_sensitive_data makes
                            \* of it when applied once and twice

obsVars == <<retval, console, emitted, alerted, remote_sent>>
countVars == <<log_count, category_count, error_count_by_category>>
sessVars == <<session_recording, session_logs, session_start, session_calls>>
fileVars == <<buffer, last_flush, files, gz_files>>
alertVars == <<alert_handlers, alert_cooldown>>
handlerVars == <<handlers, handled>>
vars == <<cfg, now, lock, stack, obsVars, countVars, sessVars, fileVars,
          alertVars, rate_limits, last_adjust_time, context_stack, scopes,
          redaction, configured, handlerVars>>

\* ---------------------------------------------------------- class attributes

\* deque(maxlen=1000)
BufferMaxLen == 1000
\* the window of _check_rate_limit and the interval of _auto_adjust_log_level
Window == 60
\* The largest backup generation the file system of the model holds.
MaxGeneration == 3

Missing == [exists |-> FALSE, data |-> <<>>]

\* The attributes of the class as it is defined.  sampling_rate is in tenths,
\* max_file_size in lines; category_filter = {} is None.
Defaults ==
  [enabled |-> TRUE, show_timestamp |-> TRUE, min_level |-> DEBUG,
   log_file |-> FALSE, colorize |-> TRUE, format_type |-> "STANDARD",
   show_metadata |-> FALSE, show_thread_id |-> FALSE, auto_flush |-> TRUE,
   max_file_size |-> 10485760, backup_count |-> 3,
   category_filter |-> {}, excluded_categories |-> {},
   buffer_enabled |-> FALSE, buffer_flush_interval |-> 5,
   alert_cooldown_seconds |-> 60, redact_enabled |-> FALSE,
   remote_host |-> FALSE, remote_enabled |-> FALSE,
   sampling_rate |-> 10, max_logs_per_minute |-> 1000,
   rate_limit_enabled |-> FALSE, auto_adjust_level |-> FALSE,
   noise_threshold |-> 100, compression_enabled |-> FALSE]

\* ----------------------------------------------------------------- helpers

RECURSIVE SumOver(_, _)
SumOver(f, S) ==
  IF S = {} THEN 0
  ELSE LET x == CHOOSE y \in S : TRUE IN f[x] + SumOver(f, S \ {x})

Sum(f) == SumOver(f, DOMAIN f)

Put(f, k, v) == [x \in DOMAIN f \cup {k} |-> IF x = k THEN v ELSE f[x]]

InCall(t) == stack[t] # <<>>
Depth(t) == Len(stack[t])
Top(t) == stack[t][Len(stack[t])]
At(t, pc) == InCall(t) /\ Top(t).pc = pc
Outer(t) == stack[t][1]
Done(t) == InCall(t) /\ Outer(t).pc = "done"

Frame(pc, op, level, cat, msg, extra) ==
  [pc |-> pc, op |-> op, level |-> level, cat |-> cat, msg |-> msg,
   extra |-> extra, count |-> 0, window_start |-> 0, current_time |-> 0,
   lines |-> <<>>, raised |-> FALSE]

\* A frame of a method that is not an entry point of a severity.
PlainFrame(pc, op) == Frame(pc, op, INFO, "SYSTEM", <<>>, "none")

\* The stack with the pc of its top frame set.
Goto(stk, pc) == [stk EXCEPT ![Len(stk)] = [@ EXCEPT !.pc = pc]]

\* The stack after its top frame returned: the outermost frame stays, done.
Ret(stk) ==
  IF Len(stk) = 1 THEN Goto(stk, "done") ELSE SubSeq(stk, 1, Len(stk) - 1)

\* ------------------------------------------------------------- pure parts

\* _redact_patterns, in order.  A token of a message is of the kind of the
\* pattern that matches it, or is plain text.
redact_patterns ==
  <<"CARD", "SSN", "PASSWORD", "APIKEY", "SECRET", "TOKEN", "BEARER">>

REDACTED == "[REDACTED]"

\* re.sub(pattern, '[REDACTED]', message)
Sub(pattern, message) ==
  [i \in 1..Len(message) |-> IF message[i] = pattern THEN REDACTED ELSE message[i]]

RECURSIVE RedactFrom(_, _)
RedactFrom(i, message) ==
  IF i > Len(redact_patterns) THEN message
  ELSE RedactFrom(i + 1, Sub(redact_patterns[i], message))

\* A slip: the flag is read the wrong way round.
RedactInverted(message) ==
  IF cfg.redact_enabled THEN message ELSE RedactFrom(1, message)

\* _redact_sensitive_data
Redact(message) ==
  IF ~cfg.redact_enabled THEN message ELSE RedactFrom(1, message)

\* A slip: the innermost label comes first.
RECURSIVE JoinInnermostFirst(_)
JoinInnermostFirst(labels) ==
  IF labels = <<>> THEN <<>>
  ELSE IF Len(labels) = 1 THEN <<labels[1]>>
  ELSE JoinInnermostFirst(Tail(labels)) \o <<">", labels[1]>>

\* " > ".join(labels)
RECURSIVE Join(_)
Join(labels) ==
  IF labels = <<>> THEN <<>>
  ELSE IF Len(labels) = 1 THEN <<labels[1]>>
  ELSE <<labels[1], ">">> \o Join(Tail(labels))

ESC == "ESC"

\* A slip: only the colour codes at the start of the line are removed.
RECURSIVE StripLeading(_)
StripLeading(line) ==
  IF line # <<>> /\ Head(line) = "ESC" THEN StripLeading(Tail(line)) ELSE line

\* re.sub(r'\x1b\[[0-9;]*m', '', message)
Strip(line) == SelectSeq(line, LAMBDA x : x # ESC)

\* _format_colored: every part between colour codes.
FormatColored(t, level, cat, message, extra) ==
  LET timestamp_part ==
        IF cfg.show_timestamp /\ cfg.format_type # "SIMPLE"
        THEN <<ESC, "[", "ts", "]", ESC>> ELSE <<>>
      level_part == <<ESC, ESC, "[", LevelName[level], "]", ESC>>
      category_part == <<ESC, "[", cat, "]", ESC>>
      context_part ==
        IF context_stack # <<>>
        THEN <<ESC, "(">> \o Join(context_stack) \o <<")", ESC>> ELSE <<>>
      metadata_part ==
        IF cfg.show_metadata /\ cfg.format_type = "DETAILED"
        THEN <<ESC, "[", "file:line", "]", ESC>> ELSE <<>>
      thread_part ==
        IF cfg.show_thread_id THEN <<ESC, "[", t, "]", ESC>> ELSE <<>>
      extra_part == IF extra # "none" THEN <<ESC, "k=v", ESC>> ELSE <<>>
      message_part == <<ESC>> \o message \o <<ESC>>
  IN timestamp_part \o level_part \o category_part \o thread_part
       \o metadata_part \o context_part \o extra_part \o message_part

\* json.dumps raises TypeError on a value it cannot encode.
JsonRaises(extra) == extra = "bad"

\* _format_json, for extras json.dumps encodes.
FormatJson(t, level, cat, message, extra) ==
  <<"{", "timestamp", "ts", "level", LevelName[level], "category", cat,
    "message">> \o message
    \o <<"file", "line", "function", "thread">>
    \o (IF cfg.show_thread_id THEN <<t>> ELSE <<"null">>)
    \o (IF context_stack # <<>> THEN <<"context">> \o Join(context_stack)
        ELSE <<>>)
    \o (IF extra # "none" THEN <<"extra", "k=v">> ELSE <<>>)
    \o <<"}">>

\* The branch of _log on format_type.
Format(t, level, cat, message, extra) ==
  IF cfg.format_type = "JSON" THEN FormatJson(t, level, cat, message, extra)
  ELSE FormatColored(t, level, cat, message, extra)

\* The stream _output prints a record of this severity to.
Stream(level) == IF level >= WARN THEN "stderr" ELSE "stdout"

\* The print of _output.
ConsoleLine(level, line) ==
  [stream |-> Stream(level), kind |-> "record", level |-> level,
   line |-> IF cfg.colorize THEN line ELSE Strip(line)]

\* A report of the logger itself on the error stream.
ErrorLine(what) ==
  [stream |-> "stderr", kind |-> "report", level |-> ERROR, line |-> <<what>>]

\* A slip: the allow-list is asked first and overrides the deny-list.
ShouldLogCategoryAllowFirst(cat) ==
  IF cfg.category_filter # {} /\ cat \in cfg.category_filter THEN TRUE
  ELSE IF cat \in cfg.excluded_categories THEN FALSE
  ELSE cfg.category_filter = {}

\* _should_log_category
ShouldLogCategory(cat) ==
  IF cat \in cfg.excluded_categories THEN FALSE
  ELSE IF cfg.category_filter # {} /\ cat \notin cfg.category_filter THEN FALSE
  ELSE TRUE

\* _should_sample; draw is random.random() in tenths.
ShouldSample(draw) ==
  IF cfg.sampling_rate >= 10 THEN TRUE ELSE draw < cfg.sampling_rate

\* A slip: the severity is not compared with min_level.
PassesFiltersAnySeverity(level, cat, draw) ==
  /\ cfg.enabled
  /\ ShouldLogCategory(cat)
  /\ ShouldSample(draw)

\* The checks of _log before _check_rate_limit.
PassesFilters(level, cat, draw) ==
  /\ ~(~cfg.enabled \/ level < cfg.min_level)
  /\ ShouldLogCategory(cat)
  /\ ShouldSample(draw)

\* Where a call of _log goes after the filters.
AfterRate == IF cfg.auto_adjust_level THEN "log_adjust" ELSE "log_lock"
AfterFilters == IF cfg.rate_limit_enabled THEN "log_rate" ELSE AfterRate

\* The stack after a call of a severity entry point from the frames stk: a
\* new frame when the record passes the filters, else the call has returned.
CallLog(stk, op, level, cat, msg, extra, draw) ==
  IF PassesFilters(level, cat, draw)
  THEN Append(stk, Frame(AfterFilters, op, level, cat, msg, extra))
  ELSE stk

NoObs == [t \in Threads |-> <<>>]

\* session_calls after a call of a severity entry point by application code
\* came to its end in the filter chain (accepted or not).
Noted(f, accepted) ==
  IF session_recording
  THEN Append(session_calls,
              [level |-> f.level, cat |-> f.cat, msg |-> f.msg,
               accepted |-> accepted, redact |-> cfg.redact_enabled])
  ELSE session_calls

NoReturn == [kind |-> "none", logs |-> <<>>, label |-> ""]

\* ------------------------------------------------------------------ files

\* deque.append with maxlen
AppendBounded(q, x) ==
  IF Len(q) >= BufferMaxLen THEN Append(Tail(q), x) ELSE Append(q, x)

\* open(log_file, 'a').write: the file is created when it is missing.
AppendFile(f, lines) ==
  [f EXCEPT ![0] = [exists |-> TRUE, data |-> f[0].data \o lines]]

\* The test of _write_to_file for a rotation.
RotationDue ==
  /\ cfg.max_file_size # 0
  /\ files[0].exists
  /\ Len(files[0].data) > cfg.max_file_size

\* The loop of _rotate_logs: i = backup_count - 1 down to 1.
RECURSIVE Shift(_, _)
Shift(f, i) ==
  IF i < 1 THEN f
  ELSE Shift(IF f[i].exists
             THEN [f EXCEPT ![i + 1] = f[i], ![i] = Missing] ELSE f,
             i - 1)

\* The renames of _rotate_logs.
Rotate(f) ==
  IF cfg.backup_count > 0
  THEN LET unlinked == [f EXCEPT ![cfg.backup_count] = Missing]
           shifted == Shift(unlinked, cfg.backup_count - 1)
       IN [shifted EXCEPT ![1] = shifted[0], ![0] = Missing]
  ELSE f

\* _rotate_logs when its last rename raises: the oldest backup is unlinked
\* and the others are shifted, the active file stays.
RotateUntilRename(f) ==
  IF cfg.backup_count > 0
  THEN Shift([f EXCEPT ![cfg.backup_count] = Missing], cfg.backup_count - 1)
  ELSE f

\* _compress_old_logs on the pair (files, gz_files): generations 1..i.
RECURSIVE CompressTo(_, _, _)
CompressTo(f, g, i) ==
  IF i < 1 THEN <<f, g>>
  ELSE LET rest == CompressTo(f, g, i - 1)
           f1 == rest[1]
           g1 == rest[2]
       IN IF f1[i].exists /\ ~g1[i].exists
          THEN <<[f1 EXCEPT ![i] = Missing], [g1 EXCEPT ![i] = f1[i]]>>
          ELSE <<f1, g1>>

Compress(f, g) ==
  IF ~cfg.compression_enabled \/ ~cfg.log_file THEN <<f, g>>
  ELSE CompressTo(f, g, cfg.backup_count)

\* ----------------------------------------------------------------- alerts

\* A slip: the key leaves out the category.
AlertKeyByLevel(level, cat) == <<LevelName[level], "">>

\* alert_key = f"{level.name}:{category.value}"
AlertKey(level, cat) == <<LevelName[level], cat>>

\* Whether _trigger_alerts gets to its handlers.
AlertFires(level, cat) ==
  /\ level \in DOMAIN alert_handlers
  /\ ~(/\ AlertKey(level, cat) \in DOMAIN alert_cooldown
       /\ now - alert_cooldown[AlertKey(level, cat)] < cfg.alert_cooldown_seconds)

\* A slip: the loop over the handlers ends at the first one that raises.
InvocationsUntilRaise(level, cat, message) ==
  LET hs == alert_handlers[level]
      stop == IF \E i \in 1..Len(hs) : hs[i] = "h_raise"
              THEN CHOOSE i \in 1..Len(hs) :
                     /\ hs[i] = "h_raise"
                     /\ \A j \in 1..(i - 1) : hs[j] # "h_raise"
              ELSE Len(hs)
  IN [i \in 1..stop |->
        [handler |-> hs[i], level |-> level, cat |-> cat, message |-> message]]

\* The invocations of the handlers of a severity, in the order of the list.
Invocations(level, cat, message) ==
  [i \in 1..Len(alert_handlers[level]) |->
     [handler |-> alert_handlers[level][i], level |-> level, cat |-> cat,
      message |-> message]]

\* A slip: a suppressed alert stores the time as well.
TriggeredAlways(level, cat) ==
  IF level \in DOMAIN alert_handlers
  THEN Put(alert_cooldown, AlertKey(level, cat), now)
  ELSE alert_cooldown

\* _alert_cooldown after _trigger_alerts: the time is stored when the alert
\* is not suppressed.
Triggered(level, cat) ==
  IF AlertFires(level, cat)
  THEN Put(alert_cooldown, AlertKey(level, cat), now)
  ELSE alert_cooldown

\* One report on the error stream for each handler that raised.
HandlerReports(level) ==
  LET raising == SelectSeq(alert_handlers[level], LAMBDA h : h = "h_raise")
  IN [i \in 1..Len(raising) |-> ErrorLine("Alert-Handler-Fehler")]

\* ----------------------------------------------------------- the record path

\* A slip: the session record keeps the message as it was passed.
SessionRecordRaw(f, message) ==
  [level |-> LevelName[f.level], category |-> f.cat, message |-> f.msg]

\* The entry _log appends to _session_logs (timestamp and metadata left out).
SessionRecord(f, message) ==
  [level |-> LevelName[f.level], category |-> f.cat, message |-> message]

\* A slip: warnings are counted as errors.
CountsAsErrorFromWarn(level) == level >= WARN

\* if level >= LogLevel.ERROR: the record counts for the errors of its
\* category.
CountsAsError(level) == level >= ERROR

\* A slip: a record whose file operation was reported as failed is not
\* counted for its severity.
CountedUnlessReported(t, f, line, printed) ==
  LET message == Redact(f.msg)
      fires == AlertFires(f.level, f.cat)
      reported == \E i \in 1..Len(printed) : printed[i].kind = "report"
  IN /\ log_count' = IF reported THEN log_count
                     ELSE [log_count EXCEPT ![f.level] = @ + 1]
     /\ category_count' = [category_count EXCEPT ![f.cat] = @ + 1]
     /\ error_count_by_category' =
          IF CountsAsError(f.level)
          THEN [error_count_by_category EXCEPT ![f.cat] = @ + 1]
          ELSE error_count_by_category
     /\ emitted' = [emitted EXCEPT ![t] =
                      Append(@, [level |-> f.level, cat |-> f.cat])]
     /\ session_logs' =
          IF session_recording
          THEN Append(session_logs, SessionRecord(f, message))
          ELSE session_logs
     /\ alert_cooldown' = Triggered(f.level, f.cat)
     /\ alerted' = [alerted EXCEPT ![t] =
                      IF fires THEN @ \o Invocations(f.level, f.cat, message)
                      ELSE @]
     /\ console' = [console EXCEPT ![t] =
                      @ \o printed
                        \o (IF fires THEN HandlerReports(f.level) ELSE <<>>)]
     /\ remote_sent' = [remote_sent EXCEPT ![t] =
                          IF cfg.remote_enabled /\ cfg.remote_host
                          THEN Append(@, line) ELSE @]
     /\ lock' = NoThread
     /\ stack' = [stack EXCEPT ![t] = Ret(@)]
     /\ UNCHANGED <<cfg, now, retval, session_recording, session_start,
                    session_calls, alert_handlers, rate_limits,
                    last_adjust_time, context_stack,
                 scopes, redaction, configured, handlerVars>>

\* Steps 5 to 7 of _log and the end of its with block: counters, session
\* record, alerts, remote forward, release.  printed are the lines the call
\* wrote to the console before.
Counted(t, f, line, printed) ==
  LET message == Redact(f.msg)
      fires == AlertFires(f.level, f.cat)
  IN /\ log_count' = [log_count EXCEPT ![f.level] = @ + 1]
     /\ category_count' = [category_count EXCEPT ![f.cat] = @ + 1]
     /\ error_count_by_category' =
          IF CountsAsError(f.level)
          THEN [error_count_by_category EXCEPT ![f.cat] = @ + 1]
          ELSE error_count_by_category
     /\ emitted' = [emitted EXCEPT ![t] =
                      Append(@, [level |-> f.level, cat |-> f.cat])]
     /\ session_logs' =
          IF session_recording
          THEN Append(session_logs, SessionRecord(f, message))
          ELSE session_logs
     /\ alert_cooldown' = Triggered(f.level, f.cat)
     /\ alerted' = [alerted EXCEPT ![t] =
                      IF fires THEN @ \o Invocations(f.level, f.cat, message)
                      ELSE @]
     /\ console' = [console EXCEPT ![t] =
                      @ \o printed
                        \o (IF fires THEN HandlerReports(f.level) ELSE <<>>)]
     /\ remote_sent' = [remote_sent EXCEPT ![t] =
                          IF cfg.remote_enabled /\ cfg.remote_host
                          THEN Append(@, line) ELSE @]
     /\ lock' = NoThread
     /\ stack' = [stack EXCEPT ![t] = Ret(@)]
     /\ UNCHANGED <<cfg, now, retval, session_recording, session_start,
                    session_calls, alert_handlers, rate_limits,
                    last_adjust_time, context_stack,
                 scopes, redaction, configured, handlerVars>>

\* An exception leaves every frame of the thread; the call is over.
Unwind(stk) == <<[stk[1] EXCEPT !.pc = "done", !.raised = TRUE]>>

\* --------------------------------------------------------- severity entry points

\* trace .. security: a call of _log up to _should_sample.
Log(t, level, cat, msg, extra, draw) ==
  /\ ~InCall(t)
  /\ stack' = [stack EXCEPT ![t] =
                 IF PassesFilters(level, cat, draw)
                 THEN <<Frame(AfterFilters, "log", level, cat, msg, extra)>>
                 ELSE <<Frame("done", "log", level, cat, msg, extra)>>]
  /\ session_calls' =
       IF PassesFilters(level, cat, draw) THEN session_calls
       ELSE Noted(Frame("done", "log", level, cat, msg, extra), FALSE)
  /\ UNCHANGED <<cfg, now, lock, obsVars, countVars, session_recording,
                 session_logs, session_start, fileVars, alertVars,
                 rate_limits, last_adjust_time, context_stack,
                 scopes, redaction, configured, handlerVars>>

\* _check_rate_limit: the clock and the entry of the category are read.
RateRead(t) ==
  /\ At(t, "log_rate")
  /\ LET f == Top(t)
         found == f.cat \in DOMAIN rate_limits
     IN stack' = [stack EXCEPT ![t] = [@ EXCEPT ![Len(@)] =
          [f EXCEPT !.pc = "log_rate_w",
                    !.current_time = now,
                    !.count = IF found THEN rate_limits[f.cat].count ELSE 0,
                    !.window_start =
                       IF found THEN rate_limits[f.cat].window_start ELSE 0]]]
  /\ UNCHANGED <<cfg, now, lock, obsVars, countVars, sessVars, fileVars,
                 alertVars, rate_limits, last_adjust_time, context_stack,
                 scopes, redaction, configured, handlerVars>>

\* The entry _check_rate_limit stores for what it read; none when it
\* refuses the record.
RateEntry(f) ==
  IF f.count = 0 THEN [count |-> 1, window_start |-> f.current_time]
  ELSE IF f.current_time - f.window_start > Window
       THEN [count |-> 1, window_start |-> f.current_time]
       ELSE [count |-> f.count + 1, window_start |-> f.window_start]

\* A slip: the ceiling is compared with > and lets one record more through.
RateRefusesLate(f) ==
  /\ f.count # 0
  /\ ~(f.current_time - f.window_start > Window)
  /\ f.count > cfg.max_logs_per_minute

\* Whether _check_rate_limit refuses the record for what it read.
RateRefuses(f) ==
  /\ f.count # 0
  /\ ~(f.current_time - f.window_start > Window)
  /\ f.count >= cfg.max_logs_per_minute

\* _check_rate_limit: the decision and the store.
RateWrite(t) ==
  /\ At(t, "log_rate_w")
  /\ LET f == Top(t) IN
       IF RateRefuses(f)
       THEN /\ stack' = [stack EXCEPT ![t] = Ret(@)]
            /\ session_calls' =
                 IF Depth(t) = 1 THEN Noted(f, FALSE) ELSE session_calls
            /\ UNCHANGED rate_limits
       ELSE /\ stack' = [stack EXCEPT ![t] = Goto(@, AfterRate)]
            /\ rate_limits' = Put(rate_limits, f.cat, RateEntry(f))
            /\ UNCHANGED session_calls
  /\ UNCHANGED <<cfg, now, lock, obsVars, countVars, session_recording,
                 session_logs, session_start, fileVars, alertVars,
                 last_adjust_time, context_stack,
                 scopes, redaction, configured, handlerVars>>

\* _auto_adjust_log_level: its two returns.
AdjustCheck(t) ==
  /\ At(t, "log_adjust")
  /\ stack' = [stack EXCEPT ![t] =
       IF session_start = NoTime \/ now - last_adjust_time < Window
       THEN Goto(@, "log_lock")
       ELSE [@ EXCEPT ![Len(@)] =
               [@ EXCEPT !.pc = "log_adjust_w", !.current_time = now]]]
  /\ UNCHANGED <<cfg, now, lock, obsVars, countVars, sessVars, fileVars,
                 alertVars, rate_limits, last_adjust_time, context_stack,
                 scopes, redaction, configured, handlerVars>>

\* current_rate > _noise_threshold, the rate in records per minute.
TooNoisy ==
  /\ now - session_start > 0
  /\ Sum(log_count) * 60 > cfg.noise_threshold * (now - session_start)

\* _auto_adjust_log_level: the store of the time, the rate and the test of
\* min_level.
AdjustWrite(t) ==
  /\ At(t, "log_adjust_w")
  /\ last_adjust_time' = Top(t).current_time
  /\ stack' = [stack EXCEPT ![t] =
       Goto(@, IF TooNoisy /\ cfg.min_level < WARN THEN "log_adjust_r"
               ELSE "log_lock")]
  /\ UNCHANGED <<cfg, now, lock, obsVars, countVars, sessVars, fileVars,
                 alertVars, rate_limits, context_stack,
                 scopes, redaction, configured, handlerVars>>

\* _auto_adjust_log_level: the raise of min_level, a statement of its own
\* after the test and outside the lock, and the notice.
AdjustRaise(t, draw) ==
  /\ At(t, "log_adjust_r")
  /\ cfg' = [cfg EXCEPT !.min_level = WARN]
  /\ stack' = [stack EXCEPT ![t] =
       LET stk == Goto(@, "log_lock") IN
         IF ~(~cfg'.enabled \/ WARN < cfg'.min_level)
            /\ ShouldLogCategory("SYSTEM") /\ ShouldSample(draw)
         THEN Append(stk, Frame(AfterFilters, "log", WARN, "SYSTEM",
                                <<"Auto-adjusted log level to WARN">>,
                                "none"))
         ELSE stk]
  /\ UNCHANGED <<now, lock, obsVars, countVars, sessVars, fileVars,
                 alertVars, rate_limits, last_adjust_time, context_stack,
                 scopes, redaction, configured, handlerVars>>

\* with cls._lock: a threading.Lock, which its holder cannot take again.
LockPcs ==
  {"log_lock", "configure_lock", "start_lock", "stop_lock", "flush_lock"}

Body(pc) ==
  CASE pc = "log_lock" -> "log_body"
    [] pc = "configure_lock" -> "configure_body"
    [] pc = "start_lock" -> "start_body"
    [] pc = "stop_lock" -> "stop_body"
    [] OTHER -> "flush_body"

\* A slip: an acquire that does not wait for the holder.
AcquireUnguarded(t) ==
  /\ InCall(t)
  /\ Top(t).pc \in LockPcs
  /\ lock' = t
  /\ stack' = [stack EXCEPT ![t] = Goto(@, Body(Top(t).pc))]
  /\ session_calls' =
       IF Top(t).pc = "log_lock" /\ Depth(t) = 1 THEN Noted(Top(t), TRUE)
       ELSE session_calls
  /\ UNCHANGED <<cfg, now, obsVars, countVars, session_recording,
                 session_logs, session_start, fileVars, alertVars,
                 rate_limits, last_adjust_time, context_stack,
                 scopes, redaction, configured, handlerVars>>

Acquire(t) ==
  /\ InCall(t)
  /\ Top(t).pc \in LockPcs
  /\ lock = NoThread
  /\ lock' = t
  /\ stack' = [stack EXCEPT ![t] = Goto(@, Body(Top(t).pc))]
  /\ session_calls' =
       IF Top(t).pc = "log_lock" /\ Depth(t) = 1 THEN Noted(Top(t), TRUE)
       ELSE session_calls
  /\ UNCHANGED <<cfg, now, obsVars, countVars, session_recording,
                 session_logs, session_start, fileVars, alertVars,
                 rate_limits, last_adjust_time, context_stack,
                 scopes, redaction, configured, handlerVars>>

\* The body of the with block of _log up to the end of _output, and the
\* rest of it (Counted) when _output returns without a call that has to
\* wait.  io is whether the file system fails the write.
LogBody(t, io, draw) ==
  /\ At(t, "log_body")
  /\ LET f == Top(t)
         message == Redact(f.msg)
         line == Format(t, f.level, f.cat, message, f.extra)
         clean == Strip(line)
         printed == <<ConsoleLine(f.level, line)>>
         buffered == cfg.log_file /\ cfg.buffer_enabled
         direct == cfg.log_file /\ ~cfg.buffer_enabled
         held == [f EXCEPT !.lines = <<line>>]
     IN IF cfg.format_type = "JSON" /\ JsonRaises(f.extra)
        THEN \* json.dumps raises; the with block releases the lock
             /\ lock' = NoThread
             /\ stack' = [stack EXCEPT ![t] = Unwind(@)]
             /\ UNCHANGED <<cfg, now, obsVars, countVars, sessVars, fileVars,
                            alertVars, rate_limits, last_adjust_time,
                            context_stack,
                 scopes, redaction, configured, handlerVars>>
        ELSE IF buffered /\ now - last_flush > cfg.buffer_flush_interval
        THEN \* _flush_buffer is called with the lock held
             /\ buffer' = AppendBounded(buffer, clean)
             /\ console' = [console EXCEPT ![t] = @ \o printed]
             /\ stack' = [stack EXCEPT ![t] =
                  Append([@ EXCEPT ![Len(@)] =
                            [held EXCEPT !.pc = "log_flushed"]],
                         PlainFrame("flush_lock", "flush"))]
             /\ UNCHANGED <<cfg, now, lock, retval, emitted, alerted,
                            remote_sent, countVars, sessVars, last_flush,
                            files, gz_files, alertVars, rate_limits,
                            last_adjust_time, context_stack,
                 scopes, redaction, configured, handlerVars>>
        ELSE IF direct /\ io = "ok" /\ RotationDue
        THEN \* _rotate_logs renames and calls info with the lock held
             /\ files' = Rotate(files)
             /\ console' = [console EXCEPT ![t] = @ \o printed]
             /\ stack' = [stack EXCEPT ![t] =
                  CallLog([@ EXCEPT ![Len(@)] =
                             [held EXCEPT !.pc = "log_rotated"]],
                          "log", INFO, "SYSTEM", <<"Logdatei rotiert">>,
                          "none", draw)]
             /\ UNCHANGED <<cfg, now, lock, retval, emitted, alerted,
                            remote_sent, countVars, sessVars, buffer,
                            last_flush, gz_files, alertVars, rate_limits,
                            last_adjust_time, context_stack,
                 scopes, redaction, configured, handlerVars>>
        ELSE /\ files' = IF direct /\ io = "ok"
                         THEN AppendFile(files, <<clean>>)
                         ELSE IF direct /\ io = "rename" /\ RotationDue
                         THEN RotateUntilRename(files)
                         ELSE files
             /\ buffer' = IF buffered THEN AppendBounded(buffer, clean)
                          ELSE buffer
             /\ Counted(t, f, line,
                        printed \o (IF direct /\ io # "ok"
                                    THEN <<ErrorLine("Dateischreibfehler")>>
                                    ELSE <<>>))
             /\ UNCHANGED <<last_flush, gz_files>>

\* _rotate_logs after its info returned: _compress_old_logs; then the write
\* of _write_to_file and the rest of _log.  io is "compress" when the
\* compression raises at its first file, "fail" when the open of the write
\* raises; both are caught and reported.
LogRotatedWith(t, io) ==
  /\ At(t, "log_rotated")
  /\ LET f == Top(t)
         compresses == cfg.compression_enabled /\ cfg.log_file
         packed == IF io = "compress" THEN <<files, gz_files>>
                   ELSE Compress(files, gz_files)
     IN /\ files' = IF io = "fail" THEN packed[1]
                    ELSE AppendFile(packed[1], <<Strip(f.lines[1])>>)
        /\ gz_files' = packed[2]
        /\ Counted(t, f, f.lines[1],
                   (IF io = "compress" /\ compresses
                    THEN <<ErrorLine("Compression-Fehler")>> ELSE <<>>)
                     \o (IF io = "fail"
                         THEN <<ErrorLine("Dateischreibfehler")>> ELSE <<>>))
  /\ UNCHANGED <<buffer, last_flush>>

LogRotated(t) == LogRotatedWith(t, "ok")

\* The calling code takes the result of a finished call.
Return(t) ==
  /\ Done(t)
  /\ stack' = [stack EXCEPT ![t] = <<>>]
  /\ retval' = [retval EXCEPT ![t] = NoReturn]
  /\ console' = [console EXCEPT ![t] = <<>>]
  /\ emitted' = [emitted EXCEPT ![t] = <<>>]
  /\ alerted' = [alerted EXCEPT ![t] = <<>>]
  /\ remote_sent' = [remote_sent EXCEPT ![t] = <<>>]
  /\ UNCHANGED <<cfg, now, lock, countVars, sessVars, fileVars, alertVars,
                 rate_limits, last_adjust_time, context_stack,
                 scopes, redaction, configured, handlerVars>>

\* time passes
Tick(d) ==
  /\ now + d <= MaxTime
  /\ now' = now + d
  /\ UNCHANGED <<cfg, lock, stack, obsVars, countVars, sessVars, fileVars,
                 alertVars, rate_limits, last_adjust_time, context_stack,
                 scopes, redaction, configured, handlerVars>>

\* ---------------------------------------------------------------- configure

\* The arguments of configure the model calls it with; an argument that is
\* not in the record has its default.
ConfigureDefaults ==
  [min_level |-> DEBUG, log_file |-> FALSE, format_type |-> "STANDARD",
   show_metadata |-> FALSE, show_thread_id |-> FALSE,
   enable_buffer |-> FALSE, enable_redaction |-> FALSE,
   enable_remote |-> FALSE, remote_host |-> FALSE,
   category_filter |-> {}, exclude_categories |-> {}, sampling_rate |-> 10]

\* max(0.0, min(1.0, sampling_rate)), in tenths
Clamp(rate) ==
  LET low == IF 10 < rate THEN 10 ELSE rate IN IF 0 > low THEN 0 ELSE low

\* A slip: enable_buffer switches the flag over instead of setting it.
ConfiguredSwitching(c, a) ==
  [c EXCEPT !.min_level = a.min_level,
            !.format_type = a.format_type,
            !.show_metadata = a.show_metadata,
            !.show_thread_id = a.show_thread_id,
            !.buffer_enabled = (c.buffer_enabled # a.enable_buffer),
            !.redact_enabled = a.enable_redaction,
            !.remote_enabled = a.enable_remote,
            !.remote_host = a.remote_host,
            !.sampling_rate = Clamp(a.sampling_rate),
            !.log_file = a.log_file,
            !.category_filter = a.category_filter,
            !.excluded_categories = a.exclude_categories]

\* The assignments of configure.
Configured(c, a) ==
  [c EXCEPT !.min_level = a.min_level,
            !.format_type = a.format_type,
            !.show_metadata = a.show_metadata,
            !.show_thread_id = a.show_thread_id,
            !.buffer_enabled = a.enable_buffer,
            !.redact_enabled = a.enable_redaction,
            !.remote_enabled = a.enable_remote,
            !.remote_host = a.remote_host,
            !.sampling_rate = Clamp(a.sampling_rate),
            !.log_file = a.log_file,
            !.category_filter = a.category_filter,
            !.excluded_categories = a.exclude_categories]

Call(t, pc, op) ==
  /\ ~InCall(t)
  /\ stack' = [stack EXCEPT ![t] = <<PlainFrame(pc, op)>>]
  /\ UNCHANGED <<cfg, now, lock, obsVars, countVars, sessVars, fileVars,
                 alertVars, rate_limits, last_adjust_time, context_stack,
                 scopes, redaction, configured, handlerVars>>

ConfigureCall(t) == Call(t, "configure_lock", "configure")

ConfigureBody(t, a) ==
  /\ At(t, "configure_body")
  /\ cfg' = Configured(cfg, a)
  /\ configured' = [called |-> TRUE, args |-> a, cfg |-> cfg',
                    again |-> /\ configured.called
                              /\ configured.args = a
                              /\ configured.cfg = cfg]
  /\ lock' = NoThread
  /\ stack' = [stack EXCEPT ![t] = Ret(@)]
  /\ UNCHANGED <<now, obsVars, countVars, sessVars, fileVars, alertVars,
                 rate_limits, last_adjust_time, context_stack,
                 scopes, redaction, handlerVars>>

\* ------------------------------------------------------------------ session

StartCall(t) == Call(t, "start_lock", "start")

\* A slip: start_session_recording keeps the records of the session before.
KeptLogs == session_logs

\* cls._session_logs = []
FreshLogs == <<>>

\* start_session_recording, with the lock, up to its call of info
StartBody(t, draw) ==
  /\ At(t, "start_body")
  /\ session_recording' = TRUE
  /\ session_logs' = FreshLogs
  /\ session_start' = now
  /\ session_calls' = <<>>
  /\ stack' = [stack EXCEPT ![t] =
       CallLog(Goto(@, "start_ret"), "log", INFO, "SYSTEM",
               <<"Session-Recording gestartet.">>, "none", draw)]
  /\ UNCHANGED <<cfg, now, lock, obsVars, countVars, fileVars, alertVars,
                 rate_limits, last_adjust_time, context_stack,
                 scopes, redaction, configured, handlerVars>>

\* start_session_recording after its info returned: the end of the with block
StartRet(t) ==
  /\ At(t, "start_ret")
  /\ lock' = NoThread
  /\ stack' = [stack EXCEPT ![t] = Ret(@)]
  /\ UNCHANGED <<cfg, now, obsVars, countVars, sessVars, fileVars, alertVars,
                 rate_limits, last_adjust_time, context_stack,
                 scopes, redaction, configured, handlerVars>>

StopCall(t) == Call(t, "stop_lock", "stop")

\* stop_session_recording, with the lock: up to its call of info when a
\* session is recorded, else all of it
StopBody(t, draw) ==
  /\ At(t, "stop_body")
  /\ IF session_recording
     THEN /\ session_recording' = FALSE
          /\ stack' = [stack EXCEPT ![t] =
               CallLog(Goto(@, "stop_ret"), "log", INFO, "SYSTEM",
                       <<"Session-Recording beendet.">>, "none", draw)]
          /\ UNCHANGED <<lock, retval>>
     ELSE /\ retval' = [retval EXCEPT ![t] =
                          [kind |-> "empty", logs |-> <<>>, label |-> ""]]
          /\ lock' = NoThread
          /\ stack' = [stack EXCEPT ![t] = Ret(@)]
          /\ UNCHANGED session_recording
  /\ UNCHANGED <<cfg, now, console, emitted, alerted, remote_sent, countVars,
                 session_logs, session_start, session_calls, fileVars,
                 alertVars, rate_limits, last_adjust_time, context_stack,
                 scopes, redaction, configured, handlerVars>>

\* stop_session_recording after its info returned: return cls._session_logs
StopRet(t) ==
  /\ At(t, "stop_ret")
  /\ retval' = [retval EXCEPT ![t] =
                  [kind |-> "logs", logs |-> session_logs, label |-> ""]]
  /\ lock' = NoThread
  /\ stack' = [stack EXCEPT ![t] = Ret(@)]
  /\ UNCHANGED <<cfg, now, console, emitted, alerted, remote_sent, countVars,
                 sessVars, fileVars, alertVars, rate_limits, last_adjust_time,
                 context_stack,
                 scopes, redaction, configured, handlerVars>>

\* ------------------------------------------------------------ context stack

\* push_context
PushContext(t, label) ==
  /\ ~InCall(t)
  /\ Len(context_stack) < MaxContext
  /\ context_stack' = Append(context_stack, label)
  /\ stack' = [stack EXCEPT ![t] = <<PlainFrame("done", "push_context")>>]
  /\ UNCHANGED <<cfg, now, lock, obsVars, countVars, sessVars, fileVars,
                 alertVars, rate_limits, last_adjust_time,
                 scopes, redaction, configured, handlerVars>>

\* pop_context
PopContext(t) ==
  /\ ~InCall(t)
  /\ IF context_stack # <<>>
     THEN /\ context_stack' = SubSeq(context_stack, 1, Len(context_stack) - 1)
          /\ retval' = [retval EXCEPT ![t] =
               [kind |-> "label", logs |-> <<>>,
                label |-> context_stack[Len(context_stack)]]]
     ELSE /\ retval' = [retval EXCEPT ![t] = NoReturn]
          /\ UNCHANGED context_stack
  /\ stack' = [stack EXCEPT ![t] = <<PlainFrame("done", "pop_context")>>]
  /\ UNCHANGED <<cfg, now, lock, console, emitted, alerted, remote_sent,
                 countVars, sessVars, fileVars, alertVars, rate_limits,
                 last_adjust_time,
                 scopes, redaction, configured, handlerVars>>

\* ------------------------------------------------------------- LogContext

\* LogContext.__enter__: push_context(self.context)
ScopeEnter(t, label) ==
  /\ ~InCall(t)
  /\ Len(context_stack) < MaxContext
  /\ context_stack' = Append(context_stack, label)
  /\ scopes' = [scopes EXCEPT ![t] =
                  Append(@, [context |-> label, entered |-> context_stack])]
  /\ stack' = [stack EXCEPT ![t] = <<PlainFrame("done", "scope_enter")>>]
  /\ UNCHANGED <<cfg, now, lock, obsVars, countVars, sessVars, fileVars,
                 alertVars, rate_limits, last_adjust_time, redaction, configured, handlerVars>>

\* A slip: __exit__ pops only when the body did not raise.
ExitStackUnlessRaised(stk, raised) ==
  IF raised \/ stk = <<>> THEN stk ELSE SubSeq(stk, 1, Len(stk) - 1)

\* The context stack after LogContext.__exit__: pop_context(), whether or
\* not the body raised.
ExitStack(stk, raised) ==
  IF stk = <<>> THEN stk ELSE SubSeq(stk, 1, Len(stk) - 1)

\* A slip: the exit takes the label of its own scope out of the stack,
\* wherever it is, instead of the top label.
ScopeExitOwn(t, raised) ==
  /\ ~InCall(t)
  /\ scopes[t] # <<>>
  /\ context_stack' =
       LET own == scopes[t][Len(scopes[t])].context
           at == {i \in 1..Len(context_stack) : context_stack[i] = own}
       IN IF at = {} THEN context_stack
          ELSE LET last == CHOOSE i \in at : \A j \in at : j <= i
               IN SubSeq(context_stack, 1, last - 1)
                    \o SubSeq(context_stack, last + 1, Len(context_stack))
  /\ scopes' = [scopes EXCEPT ![t] = SubSeq(@, 1, Len(@) - 1)]
  /\ stack' = [stack EXCEPT ![t] =
                 <<[PlainFrame("done", "scope_exit") EXCEPT !.raised = raised]>>]
  /\ UNCHANGED <<cfg, now, lock, obsVars, countVars, sessVars, fileVars,
                 alertVars, rate_limits, last_adjust_time, redaction,
                 configured, handlerVars>>

\* LogContext.__exit__ of the innermost scope of the thread.  It returns
\* None, so an exception of the body goes on to the code around the scope.
ScopeExit(t, raised) ==
  /\ ~InCall(t)
  /\ scopes[t] # <<>>
  /\ context_stack' = ExitStack(context_stack, raised)
  /\ scopes' = [scopes EXCEPT ![t] = SubSeq(@, 1, Len(@) - 1)]
  /\ stack' = [stack EXCEPT ![t] =
                 <<[PlainFrame("done", "scope_exit") EXCEPT !.raised = raised]>>]
  /\ UNCHANGED <<cfg, now, lock, obsVars, countVars, sessVars, fileVars,
                 alertVars, rate_limits, last_adjust_time, redaction, configured, handlerVars>>

\* ------------------------------------------------------------------- alerts

\* register_alert_handler; a handler either returns or raises
RegisterAlertHandler(t, level, handler) ==
  /\ ~InCall(t)
  /\ level \in DOMAIN alert_handlers => Len(alert_handlers[level]) < MaxHandlers
  /\ alert_handlers' =
       Put(alert_handlers, level,
           IF level \in DOMAIN alert_handlers
           THEN Append(alert_handlers[level], handler) ELSE <<handler>>)
  /\ UNCHANGED <<cfg, now, lock, stack, obsVars, countVars, sessVars,
                 fileVars, alert_cooldown, rate_limits, last_adjust_time,
                 context_stack,
                 scopes, redaction, configured, handlerVars>>

\* ---------------------------------------------------------- record handlers

\* _handlers is a list of the class that no method reads or writes; the
\* application appends a callable to it.
AppendHandler(t, handler) ==
  /\ ~InCall(t)
  /\ Len(handlers) < MaxHandlers
  /\ handlers' = Append(handlers, handler)
  /\ UNCHANGED <<cfg, now, lock, stack, obsVars, countVars, sessVars,
                 fileVars, alertVars, rate_limits, last_adjust_time,
                 context_stack, scopes, redaction, configured, handled>>

\* ------------------------------------------------------------- buffer flush

\* _flush_buffer as the atexit hook calls it: its first return, or on to
\* the lock.  The frame notes the lines that were pending at the call.
FlushCall(t) ==
  /\ ~InCall(t)
  /\ stack' = [stack EXCEPT ![t] =
       IF ~cfg.buffer_enabled \/ ~cfg.log_file \/ buffer = <<>>
       THEN <<[PlainFrame("done", "flush") EXCEPT !.lines = buffer]>>
       ELSE <<[PlainFrame("flush_lock", "flush") EXCEPT !.lines = buffer]>>]
  /\ UNCHANGED <<cfg, now, lock, obsVars, countVars, sessVars, fileVars,
                 alertVars, rate_limits, last_adjust_time, context_stack,
                 scopes, redaction, configured, handlerVars>>

\* _flush_buffer with the lock: the copy, the clear and _write_to_file up
\* to a rotation; without a rotation all of it
FlushBody(t, io, draw) ==
  /\ At(t, "flush_body")
  /\ buffer' = <<>>
  /\ IF io = "ok" /\ RotationDue
     THEN /\ files' = Rotate(files)
          /\ stack' = [stack EXCEPT ![t] =
               CallLog([@ EXCEPT ![Len(@)] =
                          [@ EXCEPT !.pc = "flush_rotated", !.lines = buffer]],
                       "log", INFO, "SYSTEM", <<"Logdatei rotiert">>, "none",
                       draw)]
          /\ UNCHANGED <<lock, last_flush, console>>
     ELSE /\ files' = IF io = "ok" THEN AppendFile(files, buffer) ELSE files
          /\ console' = [console EXCEPT ![t] =
               IF io = "ok" THEN @
               ELSE Append(@, ErrorLine("Dateischreibfehler"))]
          /\ last_flush' = now
          /\ lock' = NoThread
          /\ stack' = [stack EXCEPT ![t] = Ret(@)]
  /\ UNCHANGED <<cfg, now, retval, emitted, alerted, remote_sent, countVars,
                 sessVars, gz_files, alertVars, rate_limits, last_adjust_time,
                 context_stack,
                 scopes, redaction, configured, handlerVars>>

\* _flush_buffer after the info of _rotate_logs returned
FlushRotated(t) ==
  /\ At(t, "flush_rotated")
  /\ LET packed == Compress(files, gz_files)
     IN /\ files' = AppendFile(packed[1], Top(t).lines)
        /\ gz_files' = packed[2]
  /\ last_flush' = now
  /\ lock' = NoThread
  /\ stack' = [stack EXCEPT ![t] = Ret(@)]
  /\ UNCHANGED <<cfg, now, obsVars, countVars, sessVars, buffer, alertVars,
                 rate_limits, last_adjust_time, context_stack,
                 scopes, redaction, configured, handlerVars>>

\* ------------------------------------------------------------ initial states

\* configure has not been called.
NoConfigure ==
  [called |-> FALSE, args |-> ConfigureDefaults, cfg |-> Defaults,
   again |-> FALSE]

\* No text is being redacted.
NoText == [pc |-> "none", message |-> <<>>, once |-> <<>>, twice |-> <<>>]

\* A state of the class with the attributes c, the files f and the pending
\* lines b, with no call in progress; recording is whether a session was
\* started (at time 0).
InitLogger(c, f, b, recording) ==
  /\ cfg = c
  /\ now = 0
  /\ lock = NoThread
  /\ stack = [t \in Threads |-> <<>>]
  /\ retval = [t \in Threads |-> NoReturn]
  /\ console = NoObs
  /\ emitted = NoObs
  /\ alerted = NoObs
  /\ remote_sent = NoObs
  /\ buffer = b
  /\ last_flush = 0
  /\ session_recording = recording
  /\ session_logs = <<>>
  /\ session_start = IF recording THEN 0 ELSE NoTime
  /\ session_calls = <<>>
  /\ alert_handlers = <<>>
  /\ alert_cooldown = <<>>
  /\ rate_limits = <<>>
  /\ last_adjust_time = 0
  /\ context_stack = <<>>
  /\ log_count = [l \in LogLevel |-> 0]
  /\ category_count = [c1 \in Category |-> 0]
  /\ error_count_by_category = [c1 \in Category |-> 0]
  /\ files = f
  /\ gz_files = [i \in 1..MaxGeneration |-> Missing]
  /\ scopes = [t \in Threads |-> <<>>]
  /\ configured = NoConfigure
  /\ handlers = <<>>
  /\ handled = <<>>

\* The same with no text being redacted.
InitRecording(c, f, b, recording) ==
  InitLogger(c, f, b, recording) /\ redaction = NoText

\* The same before any session.
InitState(c, f, b) == InitRecording(c, f, b, FALSE)

\* The state of the class after its definition, with the attributes c.
InitWith(c, f) == InitState(c, f, <<>>)

NoFiles == [i \in 0..MaxGeneration |-> Missing]

\* ------------------------------------------- the filter chain (console only)

Main == "t1"
Hello == <<"hello">>

\* The allow-lists and deny-lists configure is called with.
FilterLists == {{}, {"API"}, {"SYSTEM", "INIT"}}
FilterMinLevels == {DEBUG, INFO, ERROR}

FilterArgs ==
  {[ConfigureDefaults EXCEPT !.min_level = m, !.category_filter = a,
                             !.exclude_categories = d] :
     m \in FilterMinLevels, a \in FilterLists, d \in FilterLists}

\* Logs.enabled is set by assignment; everything else is as defined.
InitFilter ==
  \E e \in BOOLEAN : InitWith([Defaults EXCEPT !.enabled = e], NoFiles)

\* The calls of this specification stop after this many records.
FilterRecords == 1

NextFilter ==
  \/ /\ Sum(log_count) < FilterRecords
     /\ \E level \in LogLevel, cat \in Category :
          Log(Main, level, cat, Hello, "none", 0)
  \/ Acquire(Main)
  \/ LogBody(Main, "ok", 0)
  \/ ConfigureCall(Main)
  \/ \E a \in FilterArgs : ConfigureBody(Main, a)
  \/ Return(Main)

SpecFilter == InitFilter /\ [][NextFilter]_vars

\* The record lines a call printed.
RecordLines(t) == SelectSeq(console[t], LAMBDA l : l.kind = "record")

\* What the claims say the filter chain lets through.
Wanted(level, cat) ==
  /\ cfg.enabled
  /\ level >= cfg.min_level
  /\ cat \notin cfg.excluded_categories
  /\ (cfg.category_filter = {} \/ cat \in cfg.category_filter)

\* C1: with sampling rate 1.0 and no rate limiting, a finished call of a
\* severity entry point has printed one record line and counted one record
\* if enabled, severity >= min_level, category not denied and (no allow-list
\* or category allowed); otherwise it has printed and counted nothing.
C1_FilterDecidesEmission ==
  \A t \in Threads :
    (Done(t) /\ Outer(t).op = "log" /\ cfg.sampling_rate >= 10
       /\ ~cfg.rate_limit_enabled)
    => LET f == Outer(t) IN
         IF Wanted(f.level, f.cat)
         THEN /\ Len(RecordLines(t)) = 1
              /\ emitted[t] = <<[level |-> f.level, cat |-> f.cat]>>
              /\ log_count[f.level] >= 1
         ELSE /\ console[t] = <<>>
              /\ emitted[t] = <<>>

\* C1 witness: a record of an enabled logger at min_level whose category is
\* in both lists has been rejected.
C1_Witness ==
  /\ Done(Main)
  /\ Outer(Main).op = "log"
  /\ cfg.enabled
  /\ Outer(Main).level = cfg.min_level
  /\ Outer(Main).cat \in cfg.excluded_categories \cap cfg.category_filter
  /\ console[Main] = <<>>
  /\ emitted[Main] = <<>>

\* C9: a finished call of a severity entry point has printed exactly one
\* record line if the record was accepted, on the error stream if its
\* severity is >= ERROR and on the standard stream if it is below ERROR, and
\* nothing if the record was rejected.
C9_StreamBySeverity ==
  \A t \in Threads :
    (Done(t) /\ Outer(t).op = "log")
    => IF emitted[t] # <<>>
       THEN /\ Len(RecordLines(t)) = 1
            /\ RecordLines(t)[1].stream =
                 (IF Outer(t).level >= ERROR THEN "stderr" ELSE "stdout")
       ELSE console[t] = <<>>

\* ------------------------------------------ failures inside an accepted call

Handlers == {"h_ok", "h_raise"}
Extras == {"none", "ok", "bad"}

FaultArgs ==
  {[ConfigureDefaults EXCEPT !.format_type = f, !.log_file = l,
                             !.enable_remote = r, !.remote_host = r] :
     f \in {"STANDARD", "JSON"}, l \in BOOLEAN, r \in BOOLEAN}

InitFaults == InitWith(Defaults, NoFiles)

\* The calls of this specification stop after this many records.
FaultRecords == 2

NextFaults ==
  \/ /\ Sum(log_count) < FaultRecords
     /\ \E level \in {INFO, ERROR}, extra \in Extras :
          Log(Main, level, "API", Hello, extra, 0)
  \/ Acquire(Main)
  \/ \E io \in {"ok", "fail"} : LogBody(Main, io, 0)
  \/ ConfigureCall(Main)
  \/ \E a \in FaultArgs : ConfigureBody(Main, a)
  \/ \E h \in Handlers : RegisterAlertHandler(Main, ERROR, h)
  \/ Return(Main)

SpecFaults == InitFaults /\ [][NextFaults]_vars

\* C2: a severity entry point never raises to its caller, whichever step
\* fails inside it, and the logger lock is free when it has returned.
C2_NoExceptionReachesCaller ==
  \A t \in Threads :
    (Done(t) /\ Outer(t).op = "log") => (~Outer(t).raised /\ lock = NoThread)

\* --------------------------------------------------------- session recording

Secret == <<"login", "PASSWORD">>

SessionArgs ==
  {[ConfigureDefaults EXCEPT !.min_level = m, !.enable_redaction = r] :
     m \in {DEBUG, WARN}, r \in BOOLEAN}

\* The calls of severity entry points: a severity and a message.
SessionInputs == {<<INFO, Hello>>, <<ERROR, Hello>>, <<ERROR, Secret>>}

InitSession == InitWith(Defaults, NoFiles)

\* The calls of severity entry points stop after this many records, and in
\* a session after this many calls.
SessionRecords == 2
SessionCalls == 3

NextSession ==
  \/ /\ Sum(log_count) < SessionRecords
     /\ Len(session_calls) < SessionCalls
     /\ \E c \in SessionInputs : Log(Main, c[1], "API", c[2], "none", 0)
  \/ Acquire(Main)
  \/ LogBody(Main, "ok", 0)
  \/ ConfigureCall(Main)
  \/ \E a \in SessionArgs : ConfigureBody(Main, a)
  \/ StartCall(Main)
  \/ StartBody(Main, 0)
  \/ StartRet(Main)
  \/ StopCall(Main)
  \/ StopBody(Main, 0)
  \/ StopRet(Main)
  \/ Return(Main)

SpecSession == InitSession /\ [][NextSession]_vars

\* C3: every call of a public operation returns.  The program of this
\* specification has one thread, so a call in progress that has no step to
\* take never returns.
C3_EveryCallCanReturn == InCall(Main) => ENABLED NextSession

\* The session records of the calls the filter chain accepted, in the order
\* of the calls, each with its message redacted if redaction was on.
RECURSIVE AcceptedRecords(_)
AcceptedRecords(calls) ==
  IF calls = <<>> THEN <<>>
  ELSE LET c == Head(calls) IN
         (IF c.accepted
          THEN <<[level |-> LevelName[c.level], category |-> c.cat,
                  message |-> IF c.redact THEN RedactFrom(1, c.msg)
                              ELSE c.msg]>>
          ELSE <<>>) \o AcceptedRecords(Tail(calls))

IsStart(t) == At(t, "start_body")
\* The step of the model ends a call of stop_session_recording.
IsStopEnd(t) ==
  /\ InCall(t) /\ Outer(t).op = "stop" /\ ~Done(t)
  /\ stack'[t] # <<>> /\ stack'[t][1].pc = "done"

\* C5 as claimed: start empties the stored sequence, sets the start time
\* and turns recording on; stop turns recording off and returns the stored
\* sequence; while recording is off no step changes the stored sequence;
\* only start empties it.
C5_SessionStateMachineAsClaimed ==
  [][\A t \in Threads :
       /\ IsStart(t) => (session_logs' = <<>> /\ session_start' = now
                           /\ session_recording')
       /\ IsStopEnd(t) => (~session_recording'
                             /\ retval'[t].logs = session_logs')
       /\ (~session_recording /\ ~session_recording')
            => session_logs' = session_logs
       /\ (session_logs # <<>> /\ session_logs' = <<>>)
            => \E u \in Threads : IsStart(u)]_vars

\* C5, amended: as claimed, but a stop returns the stored sequence only if
\* a session was being recorded when it took the lock; a stop that finds
\* recording off returns an empty sequence and leaves the stored one as it
\* is.
C5_SessionStateMachine ==
  [][\A t \in Threads :
       /\ IsStart(t) => (session_logs' = <<>> /\ session_start' = now
                           /\ session_recording')
       /\ IsStopEnd(t) =>
            /\ ~session_recording'
            /\ session_logs' = session_logs
            /\ IF At(t, "stop_ret") THEN retval'[t].logs = session_logs
               ELSE retval'[t].logs = <<>>
       /\ (~session_recording /\ ~session_recording')
            => session_logs' = session_logs
       /\ (session_logs # <<>> /\ session_logs' = <<>>)
            => \E u \in Threads : IsStart(u)]_vars

\* C5 witness: a second stop has returned an empty sequence while the
\* stored sequence still holds the records of the session before.
C5_Witness ==
  /\ Done(Main)
  /\ Outer(Main).op = "stop"
  /\ retval[Main].kind = "empty"
  /\ ~session_recording
  /\ Len(session_logs) = 2

\* ------------------------------------------------------------ rate limiting

\* The ceiling _max_logs_per_minute is set to.
RateCeiling == 2
\* The calls of this specification stop after this many records.
RateRecords == 5
\* The clock advances by one of these.
RateSteps == {30, 31}

\* _rate_limit_enabled and _max_logs_per_minute are set by assignment.
InitRate ==
  InitWith([Defaults EXCEPT !.rate_limit_enabled = TRUE,
                            !.max_logs_per_minute = RateCeiling], NoFiles)

NextRate ==
  \/ /\ Sum(log_count) < RateRecords
     /\ \E cat \in {"API", "SYSTEM"} : Log(Main, INFO, cat, Hello, "none", 0)
  \/ RateRead(Main)
  \/ RateWrite(Main)
  \/ Acquire(Main)
  \/ LogBody(Main, "ok", 0)
  \/ Return(Main)
  \/ \E d \in RateSteps : Tick(d)

SpecRate == InitRate /\ [][NextRate]_vars

\* The step is the decision of _check_rate_limit for the call of thread t.
IsRateDecision(t) == At(t, "log_rate_w") /\ stack'[t] # stack[t]
\* The decision lets the record through.
RatePassed(t) == stack'[t] # <<>> /\ stack'[t][Len(stack'[t])].pc = AfterRate

\* C6: the decision of the rate limit for a call of category c that arrived
\* at time T.  Without a window of c, or more than 60 seconds after the
\* start of the window of c, the call is accepted and opens a window at T
\* with count 1.  Within the window the call is accepted if fewer than N
\* calls were accepted in it, and is then counted in it; otherwise it is
\* suppressed and the window stays as it is.  No window ever counts more
\* than N calls, and the windows of the other categories stay as they are.
C6_RateLimitPerWindow ==
  [][\A t \in Threads : IsRateDecision(t) =>
       LET c == Top(t).cat
           T == Top(t).current_time
           N == cfg.max_logs_per_minute
           open == c \in DOMAIN rate_limits
                     /\ T - rate_limits[c].window_start <= 60
       IN /\ \A d \in DOMAIN rate_limits \ {c} :
               d \in DOMAIN rate_limits' /\ rate_limits'[d] = rate_limits[d]
          /\ DOMAIN rate_limits' \subseteq DOMAIN rate_limits \cup {c}
          /\ IF ~open
             THEN /\ RatePassed(t)
                  /\ rate_limits'[c] = [count |-> 1, window_start |-> T]
             ELSE IF rate_limits[c].count < N
             THEN /\ RatePassed(t)
                  /\ rate_limits'[c] =
                       [count |-> rate_limits[c].count + 1,
                        window_start |-> rate_limits[c].window_start]
             ELSE /\ ~RatePassed(t)
                  /\ rate_limits'[c] = rate_limits[c]
          /\ rate_limits'[c].count <= N]_vars

\* C6 witness: a call of API has been suppressed exactly 60 seconds after
\* the start of a window that is full, the window is not the first one of
\* API, and SYSTEM has a window of its own.
C6_Witness ==
  /\ Done(Main)
  /\ Outer(Main).op = "log"
  /\ Outer(Main).cat = "API"
  /\ emitted[Main] = <<>>
  /\ "API" \in DOMAIN rate_limits
  /\ rate_limits["API"].count = cfg.max_logs_per_minute
  /\ Outer(Main).current_time - rate_limits["API"].window_start = 60
  /\ category_count["API"] > cfg.max_logs_per_minute
  /\ "SYSTEM" \in DOMAIN rate_limits
  /\ rate_limits["SYSTEM"].window_start # rate_limits["API"].window_start

\* ---------------------------------------------------------- alert cooldown

\* The calls of this specification stop after this many records.
AlertRecords == 3
\* The clock advances by one of these.
AlertSteps == {59, 60}
\* The handlers the application registers, each for a severity.
AlertRegistrations == {<<ERROR, "h_ok">>, <<CRITICAL, "h_raise">>}

\* The calls of severity entry points: a severity and a category.
AlertInputs == {<<ERROR, "API">>, <<ERROR, "SYSTEM">>, <<CRITICAL, "API">>}

InitAlert == InitWith(Defaults, NoFiles)

NextAlert ==
  \/ /\ Sum(log_count) < AlertRecords
     /\ \E c \in AlertInputs : Log(Main, c[1], c[2], Hello, "none", 0)
  \/ Acquire(Main)
  \/ LogBody(Main, "ok", 0)
  \/ Return(Main)
  \/ \E r \in AlertRegistrations : RegisterAlertHandler(Main, r[1], r[2])
  \/ \E d \in AlertSteps : Tick(d)

SpecAlert == InitAlert /\ [][NextAlert]_vars

\* The step counts the record of the call of thread t.
IsCounted(t) == At(t, "log_body") /\ emitted'[t] # emitted[t]

\* C7: when a record of severity S and category c is counted and handlers
\* are registered for S, the handlers are invoked, once each, unless they
\* were invoked for a record of S and c less than the cooldown before; then
\* none is invoked.  The time of the last invocation is kept for each pair
\* of severity and category, and the step changes it for (S, c) only.
C7_AlertCooldownPerKey ==
  [][\A t \in Threads : IsCounted(t) =>
       LET S == Top(t).level
           k == <<LevelName[S], Top(t).cat>>
           registered == S \in DOMAIN alert_handlers
           recent == /\ k \in DOMAIN alert_cooldown
                     /\ now - alert_cooldown[k] < cfg.alert_cooldown_seconds
       IN /\ \A j \in DOMAIN alert_cooldown \ {k} :
               j \in DOMAIN alert_cooldown' /\ alert_cooldown'[j] = alert_cooldown[j]
          /\ DOMAIN alert_cooldown' \subseteq DOMAIN alert_cooldown \cup {k}
          /\ IF registered /\ ~recent
             THEN /\ Len(alerted'[t]) = Len(alert_handlers[S])
                  /\ \A i \in 1..Len(alerted'[t]) :
                       /\ alerted'[t][i].handler = alert_handlers[S][i]
                       /\ alerted'[t][i].level = S
                       /\ alerted'[t][i].cat = Top(t).cat
                  /\ k \in DOMAIN alert_cooldown'
                  /\ alert_cooldown'[k] = now
             ELSE /\ alerted'[t] = <<>>
                  /\ alert_cooldown' = alert_cooldown]_vars

\* C7 witness: the second ERROR record of API within the cooldown has invoked
\* no handler, while ERROR records of SYSTEM and CRITICAL records of API have
\* times of their own.
C7_Witness ==
  /\ Done(Main)
  /\ Outer(Main).op = "log"
  /\ Outer(Main).level = ERROR
  /\ Outer(Main).cat = "API"
  /\ emitted[Main] # <<>>
  /\ alerted[Main] = <<>>
  /\ ERROR \in DOMAIN alert_handlers
  /\ <<"ERROR", "API">> \in DOMAIN alert_cooldown
  /\ now - alert_cooldown[<<"ERROR", "API">>] \in 1..59
  /\ \E k \in {<<"ERROR", "SYSTEM">>, <<"CRITICAL", "API">>} :
       /\ k \in DOMAIN alert_cooldown
       /\ alert_cooldown[k] > alert_cooldown[<<"ERROR", "API">>]

\* ---------------------------------------------------------------- rotation

Bye == <<"bye">>

\* max_file_size is set to this many lines.
RotateSize == 1
\* The calls of this specification stop after this many records.
RotateRecords == 7

RotateArgs ==
  {[ConfigureDefaults EXCEPT !.min_level = m, !.log_file = TRUE] :
     m \in {DEBUG, WARN}}

\* max_file_size, backup_count and _compression_enabled are set by
\* assignment; the log file is the one configure was called with.
InitRotate ==
  \E n \in 0..MaxGeneration, z \in BOOLEAN :
    InitWith([Defaults EXCEPT !.min_level = WARN, !.log_file = TRUE,
                              !.max_file_size = RotateSize,
                              !.backup_count = n,
                              !.compression_enabled = z], NoFiles)

NextRotate ==
  \/ /\ Sum(log_count) < RotateRecords
     /\ \E msg \in {Hello, Bye} : Log(Main, WARN, "API", msg, "none", 0)
  \/ Acquire(Main)
  \/ LogBody(Main, "ok", 0)
  \/ LogRotated(Main)
  \/ ConfigureCall(Main)
  \/ \E a \in RotateArgs : ConfigureBody(Main, a)
  \/ Return(Main)

SpecRotate == InitRotate /\ [][NextRotate]_vars

\* The step is the rotation a write of the call of thread t runs first.
IsRotation(t) ==
  /\ At(t, "log_body")
  /\ cfg.log_file /\ ~cfg.buffer_enabled
  /\ RotationDue

\* The backup of generation k: the file .k, or .k.gz when .k is missing.
Generation(f, g, k) == IF f[k].exists THEN f[k] ELSE g[k]

\* C8: a rotation with backup count N makes the active file the backup .1
\* and every backup .k with 1 <= k < N the backup .k+1, content unchanged;
\* the backups above N stay as they are.
C8_RotationShiftsGenerations ==
  [][\A t \in Threads : IsRotation(t) =>
       LET N == cfg.backup_count IN
         /\ files'[1] = files[0]
         /\ \A k \in 1..(N - 1) :
              Generation(files', gz_files', k + 1)
                = Generation(files, gz_files, k)
         /\ \A k \in (N + 1)..MaxGeneration :
              k > 1 => Generation(files', gz_files', k)
                         = Generation(files, gz_files, k)]_vars

\* The step is the write that follows the rotation in the call of thread t.
IsWriteAfterRotation(t) == At(t, "log_rotated") /\ stack'[t] # stack[t]

\* C32: whatever the backup count, the write that follows a rotation leaves
\* an active file that holds the line of the record and nothing else, which
\* is not over the size that triggers a rotation.
C32_RotationStartsFreshFile ==
  [][\A t \in Threads : IsWriteAfterRotation(t) =>
       /\ files'[0].exists
       /\ files'[0].data = <<Strip(Top(t).lines[1])>>
       /\ Len(files'[0].data) <= cfg.max_file_size]_vars

\* C24: with backup count N the backups are numbered 1..N only, and of each
\* generation k there is the file .k or the compressed file .k.gz, never
\* both; so there are at most N backups.
C24_OneBackupPerGeneration ==
  \A k \in 1..MaxGeneration :
    /\ k > cfg.backup_count => ~files[k].exists /\ ~gz_files[k].exists
    /\ ~(files[k].exists /\ gz_files[k].exists)

\* ------------------------------------------------------------ context trail

\* The calls of this specification stop after this many records.
ContextRecords == 2

ContextArgs ==
  {[ConfigureDefaults EXCEPT !.format_type = f] : f \in {"STANDARD", "JSON"}}

InitContext == InitWith(Defaults, NoFiles)

NextContext ==
  \/ /\ Sum(log_count) < ContextRecords
     /\ Log(Main, INFO, "API", Hello, "none", 0)
  \/ Acquire(Main)
  \/ LogBody(Main, "ok", 0)
  \/ ConfigureCall(Main)
  \/ \E a \in ContextArgs : ConfigureBody(Main, a)
  \/ \E label \in {"A", "B"} : PushContext(Main, label)
  \/ PopContext(Main)
  \/ Return(Main)

SpecContext == InitContext /\ [][NextContext]_vars

\* The labels outermost first with " > " between them.
Trail(labels) ==
  [i \in 1..(2 * Len(labels) - 1) |->
     IF i % 2 = 1 THEN labels[(i + 1) \div 2] ELSE ">"]

\* part is a run of tokens of line.
InLine(line, part) ==
  \E i \in 1..(Len(line) - Len(part) + 1) :
    SubSeq(line, i, i + Len(part) - 1) = part

\* The step is a call of the operation op by thread t.
IsCallOf(t, op) == ~InCall(t) /\ stack'[t] # <<>> /\ stack'[t][1].op = op

\* C10: push_context puts its label on top of the stack; pop_context takes
\* the top label off and returns it, and on an empty stack changes nothing
\* and returns no label; a record carries the labels of the stack, outermost
\* first with " > " between them, and no context when the stack is empty.
C10_ContextTrail ==
  [][\A t \in Threads :
       /\ IsCallOf(t, "push_context") =>
            /\ Len(context_stack') = Len(context_stack) + 1
            /\ SubSeq(context_stack', 1, Len(context_stack)) = context_stack
       /\ IsCallOf(t, "pop_context") =>
            IF context_stack = <<>>
            THEN context_stack' = <<>> /\ retval'[t] = NoReturn
            ELSE /\ Append(context_stack', retval'[t].label) = context_stack
                 /\ retval'[t].kind = "label"
       /\ IsCounted(t) =>
            LET line == console'[t][Len(console'[t])].line IN
              IF context_stack = <<>>
              THEN \A i \in 1..Len(line) :
                     line[i] \notin {"(", "context", "A", "B", ">"}
              ELSE InLine(line,
                          IF cfg.format_type = "JSON"
                          THEN <<"context">> \o Trail(context_stack) \o <<"}">>
                          ELSE <<"(">> \o Trail(context_stack) \o <<")">>)]_vars

\* C10 witness: after push A, push B a record carries (A > B), and it is
\* not the first record: one before it was logged with an empty stack.
C10_Witness ==
  /\ Done(Main)
  /\ Outer(Main).op = "log"
  /\ context_stack = <<"A", "B">>
  /\ Len(RecordLines(Main)) = 1
  /\ InLine(RecordLines(Main)[1].line, <<"(", "A", ">", "B", ")">>)
  /\ log_count[INFO] = 2

\* --------------------------------------------------------- LogContext scopes

\* The calls of this specification stop after this many records.
ScopeRecords == 2

InitScope == InitWith(Defaults, NoFiles)

\* One thread whose only use of the context stack is LogContext: the scopes
\* are properly nested.
NextScope ==
  \/ /\ Sum(log_count) < ScopeRecords
     /\ \E level \in {INFO, ERROR} : Log(Main, level, "API", Hello, "none", 0)
  \/ Acquire(Main)
  \/ LogBody(Main, "ok", 0)
  \/ \E label \in {"A", "B"} : ScopeEnter(Main, label)
  \/ \E raised \in BOOLEAN : ScopeExit(Main, raised)
  \/ Return(Main)

SpecScope == InitScope /\ [][NextScope]_vars

\* The step is the exit of the innermost scope of thread t.
IsScopeExit(t) == Len(scopes'[t]) = Len(scopes[t]) - 1

\* C11: when a LogContext scope exits, normally or because its body raised,
\* the context stack is again the stack at the moment the scope was entered.
C11_ScopeRestoresStack ==
  [][\A t \in Threads : IsScopeExit(t) =>
       context_stack' = scopes[t][Len(scopes[t])].entered]_vars

\* C11 witness: the scope B inside the scope A has been left by an exception
\* after a record was logged in it, and the stack is the one of A again.
C11_Witness ==
  /\ Done(Main)
  /\ Outer(Main).op = "scope_exit"
  /\ Outer(Main).raised
  /\ Len(scopes[Main]) = 1
  /\ scopes[Main][1].context = "A"
  /\ context_stack = <<"A">>
  /\ Sum(log_count) >= 1

\* ------------------------------------------------------------ buffered mode

\* The calls of this specification stop after this many records.
BufferRecords == 3
\* The clock advances by this much: more than _buffer_flush_interval.
BufferSteps == {60}

BufferArgs ==
  {[ConfigureDefaults EXCEPT !.log_file = l, !.enable_buffer = b] :
     l \in BOOLEAN, b \in BOOLEAN}

InitBuffer == InitWith(Defaults, NoFiles)

\* The steps of thread t in buffered mode; FlushCall is the exit hook.
BufferSteps_(t) ==
  \/ /\ Sum(log_count) < BufferRecords
     /\ \E msg \in {Hello, Bye} : Log(t, INFO, "API", msg, "none", 0)
  \/ Acquire(t)
  \/ LogBody(t, "ok", 0)
  \/ ConfigureCall(t)
  \/ \E a \in BufferArgs : ConfigureBody(t, a)
  \/ FlushCall(t)
  \/ FlushBody(t, "ok", 0)
  \/ Return(t)

NextBuffer ==
  \/ BufferSteps_(Main)
  \/ \E d \in BufferSteps : Tick(d)

SpecBuffer == InitBuffer /\ [][NextBuffer]_vars

\* q ends with the lines of p.
EndsWith(q, p) ==
  Len(p) <= Len(q) /\ SubSeq(q, Len(q) - Len(p) + 1, Len(q)) = p

\* C12: when the exit hook has returned, every line that was pending when
\* it was called has been written to the log file and none is pending.
C12_ExitFlushWritesPending ==
  \A t \in Threads :
    (Done(t) /\ Outer(t).op = "flush")
    => /\ buffer = <<>>
       /\ EndsWith(files[0].data, Outer(t).lines)

\* C13: an accepted call in buffered mode with a log file appends its plain
\* line to the buffer and writes no file; if the flush interval has elapsed
\* since the last flush, the call goes on to write the pending lines to the
\* file in their order and leaves the buffer empty, and it returns: a call
\* that has begun the flush always has a step to take.
C13_BufferedCallFlushesAndReturns ==
  \A t \in Threads :
    /\ (Done(t) /\ Outer(t).op = "log" /\ emitted[t] # <<>>
          /\ cfg.log_file /\ cfg.buffer_enabled)
       => \/ /\ buffer # <<>>
             /\ buffer[Len(buffer)]
                  = Strip(RecordLines(t)[1].line)
          \/ /\ buffer = <<>>
             /\ files[0].data # <<>>
             /\ files[0].data[Len(files[0].data)]
                  = Strip(RecordLines(t)[1].line)
    /\ (InCall(t) /\ Outer(t).op = "log" /\ Top(t).op = "flush")
       => ENABLED BufferSteps_(t)

\* ---------------------------------------------------------- the full buffer

\* The calls of this specification stop after this many records.
OverflowRecords == 3
\* The clock advances by this much: two steps exceed _buffer_flush_interval.
OverflowSteps == {3}

\* The i-th line of a buffer that earlier calls filled.
OldLine(i) ==
  <<"[", "ts", "]", "[", "INFO", "]", "[", "API", "]", "old", ToString(i)>>

\* Buffered mode with one line less than the deque holds.
InitOverflow ==
  InitState([Defaults EXCEPT !.log_file = TRUE, !.buffer_enabled = TRUE],
            NoFiles, [i \in 1..(BufferMaxLen - 1) |-> OldLine(i)])

OverflowSteps_(t) ==
  \/ /\ Sum(log_count) < OverflowRecords
     /\ \E msg \in {Hello, Bye} : Log(t, INFO, "API", msg, "none", 0)
  \/ Acquire(t)
  \/ LogBody(t, "ok", 0)
  \/ Return(t)

NextOverflow ==
  \/ OverflowSteps_(Main)
  \/ \E d \in OverflowSteps : Tick(d)

SpecOverflow == InitOverflow /\ [][NextOverflow]_vars

\* The step of thread t in which _output appends to the buffer.
IsAppend(t) ==
  /\ At(t, "log_body")
  /\ cfg.log_file /\ cfg.buffer_enabled
  /\ stack'[t] # stack[t]

\* C14: the buffer never holds more than 1000 lines; an append to a full
\* buffer removes the oldest line, keeps the others in order and puts the
\* new line last; and the appending call neither blocks nor fails: until it
\* has returned it always has a step to take.
C14_BufferBoundedDropsOldest ==
  /\ [](Len(buffer) <= BufferMaxLen)
  /\ [][\A t \in Threads :
          IsAppend(t) =>
            LET f == Top(t)
                full == Len(buffer) = BufferMaxLen
                kept == IF full THEN SubSeq(buffer, 2, Len(buffer))
                        ELSE buffer
            IN /\ Len(buffer') = Len(kept) + 1
               /\ SubSeq(buffer', 1, Len(kept)) = kept
               /\ buffer'[Len(buffer')]
                    = Strip(Format(t, f.level, f.cat, Redact(f.msg),
                                   f.extra))]_vars
  /\ [](\A t \in Threads :
          (InCall(t) /\ Outer(t).op = "log") => ENABLED OverflowSteps_(t))

\* ------------------------------------------------- the lock, with two threads

\* The calls of this specification stop after this many records, and
\* after this many calls noted in the session.
LockRecords == 2
LockCalls == 3

\* The body of the with block of _log in the steps a second thread could come
\* between: _output (the print and the write of the line), ...
LogOutput(t) ==
  /\ At(t, "log_body")
  /\ cfg.format_type # "JSON" /\ ~cfg.buffer_enabled /\ ~RotationDue
  /\ LET f == Top(t)
         line == Format(t, f.level, f.cat, Redact(f.msg), f.extra)
     IN /\ console' = [console EXCEPT ![t] =
                         Append(@, ConsoleLine(f.level, line))]
        /\ files' = IF cfg.log_file THEN AppendFile(files, <<Strip(line)>>)
                    ELSE files
        /\ stack' = [stack EXCEPT ![t] = [@ EXCEPT ![Len(@)] =
              [f EXCEPT !.pc = "log_count_r", !.lines = <<line>>]]]
  /\ UNCHANGED <<cfg, now, lock, retval, emitted, alerted, remote_sent,
                 countVars, sessVars, buffer, last_flush, gz_files, alertVars,
                 rate_limits, last_adjust_time, context_stack, scopes,
                 redaction, configured, handlerVars>>

\* ... the read of cls._log_count[level] += 1, ...
LogCountRead(t) ==
  /\ At(t, "log_count_r")
  /\ stack' = [stack EXCEPT ![t] = [@ EXCEPT ![Len(@)] =
       [@ EXCEPT !.pc = "log_count_w",
                 !.count = log_count[Top(t).level]]]]
  /\ UNCHANGED <<cfg, now, lock, obsVars, countVars, sessVars, fileVars,
                 alertVars, rate_limits, last_adjust_time, context_stack,
                 scopes, redaction, configured, handlerVars>>

\* ... and its store with the rest of the block: the other counters, the
\* session record, the alerts, the remote forward and the release.
LogCountWrite(t) ==
  /\ At(t, "log_count_w")
  /\ LET f == Top(t)
         message == Redact(f.msg)
         fires == AlertFires(f.level, f.cat)
     IN /\ log_count' = [log_count EXCEPT ![f.level] = f.count + 1]
        /\ category_count' = [category_count EXCEPT ![f.cat] = @ + 1]
        /\ error_count_by_category' =
             IF CountsAsError(f.level)
             THEN [error_count_by_category EXCEPT ![f.cat] = @ + 1]
             ELSE error_count_by_category
        /\ emitted' = [emitted EXCEPT ![t] =
                         Append(@, [level |-> f.level, cat |-> f.cat])]
        /\ session_logs' =
             IF session_recording
             THEN Append(session_logs, SessionRecord(f, message))
             ELSE session_logs
        /\ alert_cooldown' =
             IF fires THEN Put(alert_cooldown, AlertKey(f.level, f.cat), now)
             ELSE alert_cooldown
        /\ alerted' = [alerted EXCEPT ![t] =
                         IF fires
                         THEN @ \o Invocations(f.level, f.cat, message)
                         ELSE @]
        /\ console' = [console EXCEPT ![t] =
                         @ \o (IF fires THEN HandlerReports(f.level)
                               ELSE <<>>)]
        /\ remote_sent' = [remote_sent EXCEPT ![t] =
                             IF cfg.remote_enabled /\ cfg.remote_host
                             THEN Append(@, f.lines[1]) ELSE @]
        /\ lock' = NoThread
        /\ stack' = [stack EXCEPT ![t] = Ret(@)]
  /\ UNCHANGED <<cfg, now, retval, session_recording, session_start,
                 session_calls, alert_handlers, rate_limits, fileVars,
                 last_adjust_time, context_stack, scopes, redaction, configured, handlerVars>>

\* A session is being recorded, the file is written directly, and records
\* below WARN are filtered out.
InitLock ==
  InitRecording([Defaults EXCEPT !.min_level = WARN, !.log_file = TRUE],
                NoFiles, <<>>, TRUE)

NextLock ==
  \/ /\ Sum(log_count) < LockRecords
     /\ Len(session_calls) < LockCalls
     /\ \E t \in Threads, level \in {INFO, WARN, ERROR},
           msg \in {Hello, Bye} : Log(t, level, "API", msg, "none", 0)
  \/ \E t \in Threads : Acquire(t)
  \/ \E t \in Threads : LogOutput(t)
  \/ \E t \in Threads : LogCountRead(t)
  \/ \E t \in Threads : LogCountWrite(t)
  \/ \E t \in Threads : Return(t)

SpecLock == InitLock /\ [][NextLock]_vars

\* The program positions of the accepted-record path.
RecordPath == {"log_body", "log_count_r", "log_count_w"}

OnRecordPath(t) == InCall(t) /\ Top(t).pc \in RecordPath

\* The line of the file for a record of the session.
FileLine(r) ==
  <<"[", "ts", "]", "[", r.level, "]", "[", r.category, "]">> \o r.message

\* The calls the filter chain accepted, as noted when they were made.
AcceptedCalls == SelectSeq(session_calls, LAMBDA c : c.accepted)

\* C15: at most one thread at a time is on the accepted-record path, and it
\* holds the lock; the lines of the file are the lines of the session
\* records in the order of the records (the record being written may still
\* be missing from the session); and the severity counters add up to the
\* number of accepted calls that have counted their record.
C15_RecordPathSerialized ==
  /\ \A t1, t2 \in Threads :
       (OnRecordPath(t1) /\ OnRecordPath(t2)) => t1 = t2
  /\ \A t \in Threads : OnRecordPath(t) => lock = t
  /\ LET data == files[0].data
         n == Len(session_logs)
     IN /\ Len(data) \in {n, n + 1}
        /\ \A i \in 1..n : data[i] = FileLine(session_logs[i])
        /\ Len(data) = n + 1 =>
             \E t \in Threads : At(t, "log_count_r") \/ At(t, "log_count_w")
  /\ Sum(log_count)
       = Len(AcceptedCalls)
           - Cardinality({t \in Threads : OnRecordPath(t)})

C15_Witness ==
  /\ Sum(log_count) = 1
  /\ Len(files[0].data) = 2
  /\ files[0].data[1] # files[0].data[2]
  /\ At("t2", "log_count_w")
  /\ At("t1", "log_lock")

\* ------------------------------------------------- shared state and the lock

\* The step changes the buffer, a counter, the session log, the
\* alert-cooldown map or the rate-limit map.
MutatesShared ==
  \/ buffer' # buffer
  \/ log_count' # log_count
  \/ category_count' # category_count
  \/ error_count_by_category' # error_count_by_category
  \/ session_logs' # session_logs
  \/ alert_cooldown' # alert_cooldown
  \/ rate_limits' # rate_limits

\* C16: every step of a thread that changes the buffer, the counters, the
\* session log, the alert-cooldown map or the rate-limit map is taken by the
\* thread that holds the lock.
C16_SharedStateUnderLock ==
  [][\A t \in Threads :
       (stack'[t] # stack[t] /\ MutatesShared) => lock = t]_vars

\* ---------------------------------------------------------------- counters

\* The calls of severity entry points stop after this many records, and in
\* a session after this many calls.
CountRecords == 2
CountCalls == 3

CountArgs ==
  {[ConfigureDefaults EXCEPT !.min_level = m] : m \in {DEBUG, WARN}}

InitCount == InitWith(Defaults, NoFiles)

NextCount ==
  \/ /\ Sum(log_count) < CountRecords
     /\ Len(session_calls) < CountCalls
     /\ \E level \in {INFO, WARN, ERROR}, cat \in {"API", "SYSTEM"} :
          Log(Main, level, cat, Hello, "none", 0)
  \/ Acquire(Main)
  \/ LogBody(Main, "ok", 0)
  \/ ConfigureCall(Main)
  \/ \E a \in CountArgs : ConfigureBody(Main, a)
  \/ StartCall(Main)
  \/ StartBody(Main, 0)
  \/ StartRet(Main)
  \/ StopCall(Main)
  \/ StopBody(Main, 0)
  \/ StopRet(Main)
  \/ Return(Main)

SpecCount == InitCount /\ [][NextCount]_vars

\* C17: no counter ever decreases, whatever the operation; the step that
\* counts a record adds one to the counter of its severity and one to the
\* counter of its category, and one to the error counter of its category
\* exactly when the severity is ERROR or above, and changes no other
\* counter; in every state the severity counters and the category counters
\* have the same sum and no error counter exceeds its category counter.
C17_CountersMonotone ==
  /\ [][/\ \A l \in LogLevel : log_count'[l] >= log_count[l]
        /\ \A c \in Category :
             /\ category_count'[c] >= category_count[c]
             /\ error_count_by_category'[c] >= error_count_by_category[c]
        /\ \A t \in Threads : IsCounted(t) =>
             LET f == Top(t) IN
               /\ \A l \in LogLevel :
                    log_count'[l]
                      = log_count[l] + (IF l = f.level THEN 1 ELSE 0)
               /\ \A c \in Category :
                    /\ category_count'[c]
                         = category_count[c] + (IF c = f.cat THEN 1 ELSE 0)
                    /\ error_count_by_category'[c]
                         = error_count_by_category[c]
                             + (IF c = f.cat /\ f.level >= ERROR THEN 1
                                ELSE 0)]_vars
  /\ [](/\ Sum(log_count) = Sum(category_count)
        /\ \A c \in Category :
             error_count_by_category[c] <= category_count[c])

C17_Witness ==
  /\ log_count[WARN] = 1
  /\ log_count[ERROR] = 1
  /\ category_count["API"] = 2
  /\ error_count_by_category["API"] = 1
  /\ cfg.min_level = WARN
  /\ session_recording

\* ------------------------------------------------- the adaptive controller

\* The calls of this specification stop after this many records, and
\* after this many calls noted in the session.
AdjustRecords == 3
AdjustCalls == 4
\* The clock advances by the interval of the controller.
AdjustSteps == {60}

AdjustArgs ==
  {[ConfigureDefaults EXCEPT !.min_level = m] : m \in {DEBUG, ERROR}}

\* The controller is on, more than one record a minute is noise, and a
\* session is being recorded.
InitAdjust ==
  InitRecording([Defaults EXCEPT !.auto_adjust_level = TRUE,
                                 !.noise_threshold = 1],
                NoFiles, <<>>, TRUE)

\* Thread t1 logs while thread t2 configures.
NextAdjust ==
  \/ /\ Sum(log_count) < AdjustRecords
     /\ Len(session_calls) < AdjustCalls
     /\ \E level \in {INFO, ERROR} : Log("t1", level, "API", Hello, "none", 0)
  \/ AdjustCheck("t1")
  \/ AdjustWrite("t1")
  \/ AdjustRaise("t1", 0)
  \/ \E t \in Threads : Acquire(t)
  \/ LogBody("t1", "ok", 0)
  \/ ConfigureCall("t2")
  \/ \E a \in AdjustArgs : ConfigureBody("t2", a)
  \/ \E t \in Threads : Return(t)
  \/ \E d \in AdjustSteps : Tick(d)

SpecAdjust == InitAdjust /\ [][NextAdjust]_vars

\* The step is one of _auto_adjust_log_level in thread t.
IsControllerStep(t) ==
  /\ InCall(t)
  /\ Top(t).pc \in {"log_adjust", "log_adjust_w", "log_adjust_r"}
  /\ stack'[t] # stack[t]

\* The step is the one in which the controller of thread t decides to raise
\* min_level.
IsRaiseDecision(t) ==
  /\ At(t, "log_adjust_w")
  /\ stack'[t] # stack[t]
  /\ stack'[t][Len(stack'[t])].pc = "log_adjust_r"

\* C18: the adaptive controller decides to raise min_level only with
\* auto-adjust on, a session started, a rate above the noise threshold and
\* min_level below WARN; a step of the controller that changes min_level
\* raises it to WARN from a level below WARN; and min_level is otherwise
\* changed by configure alone.
C18_ControllerOnlyRaises ==
  [][/\ \A t \in Threads : IsRaiseDecision(t) =>
          /\ cfg.auto_adjust_level
          /\ session_start # NoTime
          /\ Sum(log_count) * 60
               > cfg.noise_threshold * (now - session_start)
          /\ cfg.min_level < WARN
     /\ cfg'.min_level # cfg.min_level =>
          \/ \E t \in Threads :
               At(t, "configure_body") /\ stack'[t] # stack[t]
          \/ /\ \E t \in Threads : IsControllerStep(t)
             /\ cfg'.min_level = WARN
             /\ cfg.min_level < WARN]_vars

\* ------------------------------------------------ redaction before the sinks

\* The calls of this specification stop after this many records.
RedactRecords == 1

RedactArgs ==
  {[ConfigureDefaults EXCEPT !.log_file = TRUE, !.enable_buffer = b,
                             !.enable_redaction = r, !.format_type = f,
                             !.enable_remote = TRUE, !.remote_host = TRUE] :
     b \in BOOLEAN, r \in BOOLEAN, f \in {"STANDARD", "JSON"}}

\* Messages without and with text the patterns match.
RedactInputs == {Hello, Secret, <<"SSN", "and", "TOKEN">>}

\* A session is being recorded.
InitRedact == InitRecording(Defaults, NoFiles, <<>>, TRUE)

NextRedact ==
  \/ /\ Sum(log_count) < RedactRecords
     /\ \E msg \in RedactInputs : Log(Main, ERROR, "API", msg, "none", 0)
  \/ Acquire(Main)
  \/ LogBody(Main, "ok", 0)
  \/ ConfigureCall(Main)
  \/ \E a \in RedactArgs : ConfigureBody(Main, a)
  \/ RegisterAlertHandler(Main, ERROR, "h_ok")
  \/ Return(Main)

SpecRedact == InitRedact /\ [][NextRedact]_vars

\* The kinds of text the patterns match.
Sensitive == {redact_patterns[i] : i \in 1..Len(redact_patterns)}

\* The text holds something the patterns match.
Raw(text) == \E i \in 1..Len(text) : text[i] \in Sensitive

\* The message with every match replaced.
Clean(message) ==
  [i \in 1..Len(message) |->
     IF message[i] \in Sensitive THEN "[REDACTED]" ELSE message[i]]

\* C19: with redaction enabled, what the step that emits and counts a record
\* gives to each sink (the console line, the line of the file or of the
\* buffer, the session record, the arguments of the alert handlers and the
\* remote datagram) carries the redacted message and nothing the patterns
\* match.
C19_RedactedAtEverySink ==
  [][\A t \in Threads :
       (IsCounted(t) /\ cfg.redact_enabled) =>
         LET clean == Clean(Top(t).msg)
             Carries(line) == InLine(line, clean) /\ ~Raw(line)
         IN /\ Len(console'[t]) > Len(console[t])
            /\ \A i \in (Len(console[t]) + 1)..Len(console'[t]) :
                 console'[t][i].kind = "record"
                   => Carries(console'[t][i].line)
            /\ (cfg.log_file /\ ~cfg.buffer_enabled) =>
                 /\ Len(files'[0].data) = Len(files[0].data) + 1
                 /\ Carries(files'[0].data[Len(files'[0].data)])
            /\ (cfg.log_file /\ cfg.buffer_enabled) =>
                 /\ Len(buffer') = Len(buffer) + 1
                 /\ Carries(buffer'[Len(buffer')])
            /\ session_recording =>
                 /\ Len(session_logs') = Len(session_logs) + 1
                 /\ session_logs'[Len(session_logs')].message = clean
            /\ \A i \in (Len(alerted[t]) + 1)..Len(alerted'[t]) :
                 alerted'[t][i].message = clean
            /\ (cfg.remote_enabled /\ cfg.remote_host) =>
                 /\ Len(remote_sent'[t]) = Len(remote_sent[t]) + 1
                 /\ Carries(remote_sent'[t][Len(remote_sent'[t])])]_vars

C19_Witness ==
  /\ Done(Main)
  /\ Outer(Main).op = "log"
  /\ Outer(Main).msg = Secret
  /\ cfg.redact_enabled
  /\ cfg.format_type = "JSON"
  /\ emitted[Main] # <<>>
  /\ buffer # <<>>
  /\ session_logs # <<>>
  /\ alerted[Main] # <<>>
  /\ remote_sent[Main] # <<>>

\* ------------------------------------------- redaction, character by character

\* The characters of the texts of this specification.
Letters ==
  {"a", "b", "c", "d", "e", "i", "k", "n", "o", "p", "r", "s", "t", "w",
   "x", "y"}
Capitals == {"A", "B", "C", "D", "E", "P", "R", "T"}
Digits == {"1"}
Spaces == {" "}
Alphabet ==
  Letters \cup Capitals \cup Digits \cup Spaces
    \cup {"_", "-", "=", ":", "\"", "[", "]"}

\* str.lower of a character, for re.IGNORECASE.
Lower(ch) ==
  CASE ch = "A" -> "a" [] ch = "B" -> "b" [] ch = "C" -> "c"
    [] ch = "D" -> "d" [] ch = "E" -> "e" [] ch = "P" -> "p"
    [] ch = "R" -> "r" [] ch = "T" -> "t" [] OTHER -> ch

\* \w, \d, \s, \S and the class ["\s:=]
Word == Letters \cup Capitals \cup Digits \cup {"_"}
NonSpace == Alphabet \ Spaces
Separators == Spaces \cup {"\"", ":", "="}

\* The parts of a pattern: \b, or a set of characters with the least and the
\* most repetitions (0 for no limit); a quantifier is greedy.
Boundary == [kind |-> "b", set |-> {}, min |-> 0, max |-> 0]
Rep(set, min, max) == [kind |-> "set", set |-> set, min |-> min, max |-> max]
Lit(word) == [i \in 1..Len(word) |-> Rep({word[i]}, 1, 1)]

\* _redact_patterns, in order.
redact_regex ==
  << <<Boundary, Rep(Digits, 16, 16), Boundary>>,
     <<Boundary, Rep(Digits, 3, 3), Rep({"-"}, 1, 1), Rep(Digits, 2, 2),
       Rep({"-"}, 1, 1), Rep(Digits, 4, 4), Boundary>>,
     Lit(<<"p", "a", "s", "s", "w", "o", "r", "d">>)
       \o <<Rep(Separators, 1, 0), Rep(NonSpace, 1, 0)>>,
     Lit(<<"a", "p", "i">>) \o <<Rep({"_", "-"}, 0, 1)>>
       \o Lit(<<"k", "e", "y">>)
       \o <<Rep(Separators, 1, 0), Rep(NonSpace, 1, 0)>>,
     Lit(<<"s", "e", "c", "r", "e", "t">>)
       \o <<Rep(Separators, 1, 0), Rep(NonSpace, 1, 0)>>,
     Lit(<<"t", "o", "k", "e", "n">>)
       \o <<Rep(Separators, 1, 0), Rep(NonSpace, 1, 0)>>,
     Lit(<<"b", "e", "a", "r", "e", "r">>)
       \o <<Rep(Spaces, 1, 0), Rep(NonSpace, 1, 0)>> >>

\* '[REDACTED]'
Replacement == <<"[", "R", "E", "D", "A", "C", "T", "E", "D", "]">>

\* The character at pos is a word character; none outside the text.
IsWordAt(text, pos) ==
  pos >= 1 /\ pos <= Len(text) /\ text[pos] \in Word

\* \b before the character at pos.
AtBoundary(text, pos) == IsWordAt(text, pos - 1) # IsWordAt(text, pos)

\* The character at pos is in the set, whatever its case.
InSet(text, pos, set) ==
  pos <= Len(text) /\ (text[pos] \in set \/ Lower(text[pos]) \in set)

\* How many characters from pos on are in the set, up to max.
RECURSIVE Run(_, _, _, _)
Run(text, pos, set, max) ==
  IF max = 0 \/ ~InSet(text, pos, set) THEN 0
  ELSE 1 + Run(text, pos + 1, set, max - 1)

\* Where the match of the parts k.. of the pattern that starts at pos ends
\* (the position after it), 0 when there is none: the longest repetition
\* first, then shorter ones.
RECURSIVE MatchFrom(_, _, _, _), Repeat(_, _, _, _, _)
MatchFrom(pattern, k, text, pos) ==
  IF k > Len(pattern) THEN pos
  ELSE IF pattern[k].kind = "b"
       THEN IF AtBoundary(text, pos) THEN MatchFrom(pattern, k + 1, text, pos)
            ELSE 0
       ELSE LET e == pattern[k]
                most == IF e.max = 0 THEN Len(text) ELSE e.max
            IN Repeat(pattern, k, text, pos, Run(text, pos, e.set, most))

Repeat(pattern, k, text, pos, n) ==
  IF n < pattern[k].min THEN 0
  ELSE LET end == MatchFrom(pattern, k + 1, text, pos + n)
       IN IF end # 0 THEN end ELSE Repeat(pattern, k, text, pos, n - 1)

\* re.sub(pattern, '[REDACTED]', text, flags=re.IGNORECASE) from pos on: the
\* leftmost match is replaced and the search goes on after it.
RECURSIVE ReSub(_, _, _)
ReSub(pattern, text, pos) ==
  IF pos > Len(text) THEN <<>>
  ELSE LET end == MatchFrom(pattern, 1, text, pos)
       IN IF end # 0 THEN Replacement \o ReSub(pattern, text, end)
          ELSE <<text[pos]>> \o ReSub(pattern, text, pos + 1)

\* The loop over the patterns, from the i-th on.
RECURSIVE RedactTextFrom(_, _)
RedactTextFrom(i, text) ==
  IF i > Len(redact_regex) THEN text
  ELSE RedactTextFrom(i + 1, ReSub(redact_regex[i], text, 1))

\* _redact_sensitive_data on a text of characters.
RedactText(text) ==
  IF ~cfg.redact_enabled THEN text ELSE RedactTextFrom(1, text)

\* The texts are made of up to this many pieces.
MaxPieces == 3

Pieces ==
  { <<"1", "1", "1", "-", "1", "1", "-", "1", "1", "1", "1">>,
    <<"p", "a", "s", "s", "w", "o", "r", "d">>,
    <<"=", "x">>,
    <<" ">>,
    <<"B", "e", "a", "r", "e", "r">>,
    <<"x">> }

RECURSIVE TextsOf(_)
TextsOf(n) ==
  IF n = 0 THEN {<<>>}
  ELSE LET shorter == TextsOf(n - 1)
       IN shorter \cup {t \o p : t \in shorter, p \in Pieces}

\* _redact_sensitive_data is called with a text.
InitText ==
  /\ InitLogger([Defaults EXCEPT !.redact_enabled = TRUE], NoFiles, <<>>,
                FALSE)
  /\ redaction \in {[pc |-> "called", message |-> m, once |-> <<>>,
                     twice |-> <<>>] : m \in TextsOf(MaxPieces)}

\* The call returns its result ...
RedactOnce ==
  /\ redaction.pc = "called"
  /\ redaction' = [redaction EXCEPT !.pc = "once",
                                    !.once = RedactText(redaction.message)]
  /\ UNCHANGED <<cfg, now, lock, stack, obsVars, countVars, sessVars,
                 fileVars, alertVars, rate_limits, last_adjust_time,
                 context_stack, scopes, configured, handlerVars>>

\* ... and is called again with it.
RedactTwice ==
  /\ redaction.pc = "once"
  /\ redaction' = [redaction EXCEPT !.pc = "twice",
                                    !.twice = RedactText(redaction.once)]
  /\ UNCHANGED <<cfg, now, lock, stack, obsVars, countVars, sessVars,
                 fileVars, alertVars, rate_limits, last_adjust_time,
                 context_stack, scopes, configured, handlerVars>>

NextText == RedactOnce \/ RedactTwice

SpecText == InitText /\ [][NextText]_vars

\* C20: redacting a redacted text gives the same text.
C20_RedactIdempotent ==
  redaction.pc = "twice" => redaction.twice = redaction.once

\* ------------------------------------------------- colour codes and the sinks

\* The calls of this specification stop after this many records.
ColorRecords == 1

ColorArgs ==
  {[ConfigureDefaults EXCEPT !.log_file = TRUE, !.enable_buffer = b,
                             !.format_type = f,
                             !.show_metadata = (f = "DETAILED"),
                             !.show_thread_id = (f = "DETAILED")] :
     b \in BOOLEAN, f \in {"SIMPLE", "DETAILED"}}

\* A message without and one with a colour code of its own.
ColorInputs == {Hello, <<"red", ESC, "text">>}

\* colorize is an attribute the application sets.
InitColor ==
  \E colorize \in BOOLEAN :
    InitWith([Defaults EXCEPT !.colorize = colorize], NoFiles)

NextColor ==
  \/ /\ Sum(log_count) < ColorRecords
     /\ \E msg \in ColorInputs, extra \in {"none", "ok"} :
          Log(Main, ERROR, "API", msg, extra, 0)
  \/ Acquire(Main)
  \/ LogBody(Main, "ok", 0)
  \/ ConfigureCall(Main)
  \/ \E a \in ColorArgs : ConfigureBody(Main, a)
  \/ PushContext(Main, "A")
  \/ Return(Main)

SpecColor == InitColor /\ [][NextColor]_vars

\* The text without the colour codes in it.
Uncoloured(text) == SelectSeq(text, LAMBDA x : x # "ESC")

\* The line of the record of frame f of thread t without any colour.
PlainLine(t, f) ==
  (IF cfg.show_timestamp /\ cfg.format_type # "SIMPLE"
   THEN <<"[", "ts", "]">> ELSE <<>>)
    \o <<"[", LevelName[f.level], "]", "[", f.cat, "]">>
    \o (IF cfg.show_thread_id THEN <<"[", t, "]">> ELSE <<>>)
    \o (IF cfg.show_metadata /\ cfg.format_type = "DETAILED"
        THEN <<"[", "file:line", "]">> ELSE <<>>)
    \o (IF context_stack # <<>>
        THEN <<"(">> \o Trail(context_stack) \o <<")">> ELSE <<>>)
    \o (IF f.extra # "none" THEN <<"k=v">> ELSE <<>>)
    \o Uncoloured(f.msg)

\* C21: for a record of a coloured format, the line printed with colorize
\* off is the line printed with colorize on without its colour codes, and
\* the line appended to the file or to the buffer is that same line and
\* holds no colour code.
C21_StrippedLineIsPlainLine ==
  [][\A t \in Threads :
       IsCounted(t) =>
         LET plain == PlainLine(t, Top(t))
             printed == console'[t][Len(console'[t])].line
         IN /\ Len(console'[t]) = Len(console[t]) + 1
            /\ cfg.colorize =>
                 /\ Uncoloured(printed) = plain
                 /\ printed # plain
            /\ ~cfg.colorize => printed = plain
            /\ (cfg.log_file /\ ~cfg.buffer_enabled) =>
                 /\ Len(files'[0].data) = Len(files[0].data) + 1
                 /\ files'[0].data[Len(files'[0].data)] = plain
            /\ (cfg.log_file /\ cfg.buffer_enabled) =>
                 /\ Len(buffer') = Len(buffer) + 1
                 /\ buffer'[Len(buffer')] = plain]_vars

C21_Witness ==
  /\ Done(Main)
  /\ Outer(Main).op = "log"
  /\ Outer(Main).msg # Hello
  /\ emitted[Main] # <<>>
  /\ ~cfg.colorize
  /\ cfg.format_type = "DETAILED"
  /\ cfg.show_metadata
  /\ context_stack # <<>>
  /\ files[0].data # <<>>

\* ------------------------------------------------------- configure, repeated

\* The calls of this specification stop after this many records.
ConfigureRecords == 2

\* Arguments of configure: the defaults, a sampling rate above 1.0, a file
\* with buffering, category lists, a remote host.
ConfigureArgs ==
  {ConfigureDefaults,
   [ConfigureDefaults EXCEPT !.sampling_rate = 15, !.min_level = WARN],
   [ConfigureDefaults EXCEPT !.log_file = TRUE, !.enable_buffer = TRUE],
   [ConfigureDefaults EXCEPT !.category_filter = {"API"},
                             !.exclude_categories = {"SYSTEM"},
                             !.enable_redaction = TRUE],
   [ConfigureDefaults EXCEPT !.enable_remote = TRUE, !.remote_host = TRUE,
                             !.format_type = "JSON",
                             !.show_metadata = TRUE]}

InitConfigure == InitWith(Defaults, NoFiles)

NextConfigure ==
  \/ /\ Sum(log_count) < ConfigureRecords
     /\ \E level \in {INFO, ERROR}, cat \in {"API", "SYSTEM"} :
          Log(Main, level, cat, Hello, "none", 0)
  \/ Acquire(Main)
  \/ LogBody(Main, "ok", 0)
  \/ ConfigureCall(Main)
  \/ \E a \in ConfigureArgs : ConfigureBody(Main, a)
  \/ PushContext(Main, "A")
  \/ Return(Main)

SpecConfigure == InitConfigure /\ [][NextConfigure]_vars

\* The step of thread t is the body of configure.
IsConfigure(t) == At(t, "configure_body") /\ stack'[t] # stack[t]

\* C22: a call of configure with the arguments of the call before it, on
\* the attributes that call left, leaves every attribute and the rest of
\* the logger state as they were.
C22_ConfigureIdempotent ==
  [][\A t \in Threads :
       (/\ IsConfigure(t)
        /\ configured.called
        /\ configured.cfg = cfg
        /\ configured'.args = configured.args) =>
         /\ cfg' = cfg
         /\ UNCHANGED <<obsVars, countVars, sessVars, fileVars, alertVars,
                        rate_limits, last_adjust_time, context_stack,
                        scopes>>]_vars

C22_Witness ==
  /\ Done(Main)
  /\ Outer(Main).op = "configure"
  /\ configured.again
  /\ configured.args.sampling_rate = 15
  /\ cfg.sampling_rate = 10
  /\ Sum(log_count) > 0
  /\ context_stack # <<>>

\* ---------------------------------------------- records and record handlers

\* The calls of this specification stop after this many records.
HandlerRecords == 2

NextHandlers ==
  \/ /\ Sum(log_count) < HandlerRecords
     /\ \E level \in {INFO, ERROR}, cat \in {"API", "SYSTEM"},
           extra \in {"none", "ok"} :
          Log(Main, level, cat, Hello, extra, 0)
  \/ Acquire(Main)
  \/ LogBody(Main, "ok", 0)
  \/ Return(Main)
  \/ \E h \in Handlers : AppendHandler(Main, h)
  \/ \E a \in {[ConfigureDefaults EXCEPT !.show_metadata = TRUE]} :
       ConfigureBody(Main, a)
  \/ ConfigureCall(Main)

InitHandlers == InitWith(Defaults, NoFiles)

SpecHandlers == InitHandlers /\ [][NextHandlers]_vars

\* C23: the step that counts a record invokes each record handler of the
\* list once, in order, with the severity, the category, the message and the
\* metadata of the record, whether or not a handler before it raised, and
\* the call returns normally.
C23_RecordHandlersInvoked ==
  [][\A t \in Threads : IsCounted(t) =>
       /\ handled' =
            handled \o [i \in 1..Len(handlers) |->
                          [handler |-> handlers[i], level |-> Top(t).level,
                           cat |-> Top(t).cat, message |-> Top(t).msg,
                           metadata |-> "file:line"]]
       /\ ~stack'[t][1].raised]_vars

\* ----------------------------------------- alert handlers, one after another

\* The calls of this specification stop after this many records.
DispatchRecords == 2
\* The clock advances by this.
DispatchSteps == {60}

\* Handlers that return and handlers that raise, for one severity and for
\* another.
DispatchRegistrations ==
  {<<ERROR, "h_ok">>, <<ERROR, "h_raise">>, <<CRITICAL, "h_raise">>}

InitDispatch == InitWith(Defaults, NoFiles)

NextDispatch ==
  \/ /\ Sum(log_count) < DispatchRecords
     /\ \E level \in {WARN, ERROR, CRITICAL}, msg \in {Hello, Bye} :
          Log(Main, level, "API", msg, "none", 0)
  \/ Acquire(Main)
  \/ LogBody(Main, "ok", 0)
  \/ Return(Main)
  \/ \E r \in DispatchRegistrations : RegisterAlertHandler(Main, r[1], r[2])
  \/ \E d \in DispatchSteps : Tick(d)

SpecDispatch == InitDispatch /\ [][NextDispatch]_vars

\* The step counts the record of thread t and its alert is not suppressed.
IsAlert(t) ==
  /\ IsCounted(t)
  /\ Top(t).level \in DOMAIN alert_handlers
  /\ LET k == <<LevelName[Top(t).level], Top(t).cat>>
     IN k \in DOMAIN alert_cooldown =>
          now - alert_cooldown[k] >= cfg.alert_cooldown_seconds

\* C25: when an alert fires, the handlers registered for the severity of the
\* record are invoked one after another in the order of their registration,
\* each with the severity, the category and the message, also after a
\* handler that raised; and no call of an entry point ends with an
\* exception.
C25_AlertHandlersInOrder ==
  [][\A t \in Threads :
       /\ IsAlert(t) =>
            LET S == Top(t).level
                hs == alert_handlers[S]
            IN /\ Len(alerted'[t]) = Len(hs)
               /\ \A i \in 1..Len(hs) :
                    alerted'[t][i] =
                      [handler |-> hs[i], level |-> S, cat |-> Top(t).cat,
                       message |-> Top(t).msg]
       /\ stack'[t] # <<>> => ~stack'[t][1].raised]_vars

C25_Witness ==
  /\ Done(Main)
  /\ Outer(Main).op = "log"
  /\ ~Outer(Main).raised
  /\ Len(alerted[Main]) = 2
  /\ alerted[Main][1].handler = "h_raise"
  /\ alerted[Main][2].handler = "h_ok"
  /\ alerted[Main][2].message = Bye

\* ------------------------------------- failing writes, rotations, compressions

\* The calls of this specification stop after this many records.
IORecords == 4

\* Outcomes of the file operations of a record: all succeed, the open of the
\* write raises, the last rename of a rotation raises, the compression
\* raises.
IOOutcomes == {"ok", "fail", "rename", "compress"}

\* The session is being recorded, records are forwarded, the file rotates
\* after RotateSize lines; the notice of a rotation is below min_level.
InitIO ==
  \E n \in 1..MaxGeneration, z \in BOOLEAN :
    InitRecording([Defaults EXCEPT !.min_level = WARN, !.log_file = TRUE,
                                   !.max_file_size = RotateSize,
                                   !.backup_count = n,
                                   !.compression_enabled = z,
                                   !.remote_enabled = TRUE,
                                   !.remote_host = TRUE],
                  NoFiles, <<>>, TRUE)

NextIO ==
  \/ /\ Sum(log_count) < IORecords
     /\ \E level \in {WARN, ERROR} : Log(Main, level, "API", Hello, "none", 0)
  \/ Acquire(Main)
  \/ \E io \in IOOutcomes \ {"compress"} : LogBody(Main, io, 0)
  \/ \E io \in IOOutcomes \ {"rename"} : LogRotatedWith(Main, io)
  \/ RegisterAlertHandler(Main, ERROR, "h_ok")
  \/ Return(Main)

SpecIO == InitIO /\ [][NextIO]_vars

\* The step of thread t reports a failure of a file operation.
IsIOFailure(t) ==
  /\ At(t, "log_body") \/ At(t, "log_rotated")
  /\ \E i \in (Len(console[t]) + 1)..Len(console'[t]) :
       console'[t][i] \in {ErrorLine("Dateischreibfehler"),
                           ErrorLine("Compression-Fehler")}

\* The step ends the log call of thread t with all file operations done.
IsWritten(t) ==
  /\ At(t, "log_body") \/ At(t, "log_rotated")
  /\ stack'[t] # stack[t]
  /\ stack'[t][1].pc = "done"
  /\ ~IsIOFailure(t)

\* C26: the step of a log call in which the write, the rotation or the
\* compression fails counts the record for its severity and category, appends
\* the session record, invokes the alert handlers, forwards the line, frees
\* the lock and ends the call without an exception; and a call whose file
\* operations all succeed appends its line to the file, whatever failed
\* before.
C26_IOFailureKeepsCallGoing ==
  [][\A t \in Threads :
       /\ IsIOFailure(t) =>
            LET S == Top(t).level
                c == Top(t).cat
            IN /\ log_count'[S] = log_count[S] + 1
               /\ category_count'[c] = category_count[c] + 1
               /\ error_count_by_category'[c] =
                    error_count_by_category[c] + (IF S >= ERROR THEN 1 ELSE 0)
               /\ session_recording =>
                    /\ Len(session_logs') = Len(session_logs) + 1
                    /\ session_logs'[Len(session_logs')].level = LevelName[S]
               /\ (S \in DOMAIN alert_handlers
                     /\ <<LevelName[S], c>> \notin DOMAIN alert_cooldown) =>
                    Len(alerted'[t]) = Len(alert_handlers[S])
               /\ cfg.remote_enabled /\ cfg.remote_host =>
                    Len(remote_sent'[t]) = Len(remote_sent[t]) + 1
               /\ lock' = NoThread
               /\ stack'[t] = <<[stack[t][1] EXCEPT !.pc = "done"]>>
               /\ ~stack'[t][1].raised
       /\ IsWritten(t) =>
            /\ files'[0].exists
            /\ IF At(t, "log_body")
               THEN Len(files'[0].data) = Len(files[0].data) + 1
               ELSE files'[0].data = <<Strip(Top(t).lines[1])>>
            /\ lock' = NoThread]_vars

C26_Witness ==
  /\ Done(Main)
  /\ Outer(Main).op = "log"
  /\ \E i \in 1..Len(console[Main]) :
       console[Main][i] = ErrorLine("Compression-Fehler")
  /\ alerted[Main] # <<>>
  /\ session_logs # <<>>
  /\ remote_sent[Main] # <<>>
  /\ files[0].exists
  /\ files[1].exists
  /\ Sum(log_count) = IORecords

\* ------------------------------------------------------------ rejected calls

\* The calls of this specification stop after this many records.
RejectRecords == 2
\* A file written directly; a buffered file with a minimum severity and
\* sampling rate 0.5; a deny-list; an allow-list; sampling rate 0.0.
RejectArgs ==
  {[ConfigureDefaults EXCEPT !.log_file = TRUE],
   [ConfigureDefaults EXCEPT !.log_file = TRUE, !.enable_buffer = TRUE,
                             !.min_level = ERROR, !.sampling_rate = 5],
   [ConfigureDefaults EXCEPT !.exclude_categories = {"SYSTEM"}],
   [ConfigureDefaults EXCEPT !.category_filter = {"SYSTEM"}],
   [ConfigureDefaults EXCEPT !.sampling_rate = 0]}

\* enabled, _rate_limit_enabled and _max_logs_per_minute are set by
\* assignment.
InitReject ==
  \E enabled \in BOOLEAN :
    InitWith([Defaults EXCEPT !.enabled = enabled,
                              !.rate_limit_enabled = TRUE,
                              !.max_logs_per_minute = 1], NoFiles)

NextReject ==
  \/ /\ Sum(log_count) < RejectRecords
     /\ \E level \in {INFO, ERROR}, cat \in {"API", "SYSTEM"},
           draw \in {0, 9} :
          Log(Main, level, cat, Hello, "none", draw)
  \/ RateRead(Main)
  \/ RateWrite(Main)
  \/ Acquire(Main)
  \/ LogBody(Main, "ok", 0)
  \/ Return(Main)
  \/ ConfigureCall(Main)
  \/ \E a \in RejectArgs : ConfigureBody(Main, a)
  \/ RegisterAlertHandler(Main, ERROR, "h_ok")

SpecReject == InitReject /\ [][NextReject]_vars

\* The step is the call of a severity entry point by thread t.
IsLogCall(t) ==
  ~InCall(t) /\ stack'[t] # <<>> /\ stack'[t][1].op = "log"

\* What a rejected call leaves as it is, the rate-limit windows apart.
RejectedLeaves ==
  UNCHANGED <<log_count, category_count, error_count_by_category,
              session_logs, buffer, files, gz_files, alert_cooldown, cfg,
              console>>

\* C27: a call that the enabled flag, the minimum severity, the deny-list,
\* the allow-list or the sampling (at rate 0.0 always) rejects is over at
\* once; a call that is over at once leaves the counters, the session log,
\* the buffer, the files, the alert cooldowns, min_level, the console and
\* the rate-limit windows as they are; a call that the rate limit refuses
\* leaves all of these but the rate-limit windows as they are.
C27_RejectedCallChangesNothing ==
  [][\A t \in Threads :
       /\ IsLogCall(t) =>
            LET f == stack'[t][1]
                rejected ==
                  \/ ~cfg.enabled
                  \/ f.level < cfg.min_level
                  \/ f.cat \in cfg.excluded_categories
                  \/ cfg.category_filter # {}
                       /\ f.cat \notin cfg.category_filter
                  \/ cfg.sampling_rate = 0
            IN /\ rejected => f.pc = "done"
               /\ f.pc = "done" => RejectedLeaves /\ UNCHANGED rate_limits
               /\ f.pc # "done" => f.pc = "log_rate"
       /\ At(t, "log_rate") /\ stack'[t] # stack[t] =>
            RejectedLeaves /\ UNCHANGED rate_limits
       /\ IsRateDecision(t) /\ ~RatePassed(t) =>
            RejectedLeaves /\ stack'[t][1].pc = "done"]_vars

C27_Witness ==
  /\ Done(Main)
  /\ Outer(Main).op = "log"
  /\ Outer(Main).level = ERROR
  /\ emitted[Main] = <<>>
  /\ cfg.sampling_rate = 5
  /\ cfg.min_level = ERROR
  /\ cfg.buffer_enabled
  /\ "API" \in DOMAIN rate_limits
  /\ rate_limits["API"].count = 1
  /\ buffer # <<>>
  /\ alert_cooldown # <<>>
  /\ Sum(log_count) = 1

\* ------------------------------------- the controller with two logging threads

\* The calls of this specification stop after this many records, and
\* after this many calls noted in the session.
ControllerRecords == 3
ControllerCalls == 3
\* The clock advances by the interval of the controller.
ControllerSteps == {60}

\* Both threads log.
NextController ==
  \/ /\ Sum(log_count) < ControllerRecords
     /\ Len(session_calls) < ControllerCalls
     /\ \E t \in Threads : Log(t, INFO, "API", Hello, "none", 0)
  \/ \E t \in Threads : AdjustCheck(t)
  \/ \E t \in Threads : AdjustWrite(t)
  \/ \E t \in Threads : AdjustRaise(t, 0)
  \/ \E t \in Threads : Acquire(t)
  \/ \E t \in Threads : LogBody(t, "ok", 0)
  \/ \E t \in Threads : Return(t)
  \/ \E d \in ControllerSteps : Tick(d)

SpecController == InitAdjust /\ [][NextController]_vars

\* The step is an evaluation of the log rate in thread t: the controller
\* has passed its test of the interval and goes on to the rate.
IsEvaluation(t) == At(t, "log_adjust_w") /\ stack'[t] # stack[t]

\* C28: an evaluation of the log rate by the controller comes at least 60
\* seconds after the evaluation before it, whichever threads log.
C28_ControllerOncePerInterval ==
  [][\A t \in Threads :
       IsEvaluation(t) => now - last_adjust_time >= Window]_vars

\* ------------------------------------- the rate limit with two logging threads

\* The calls of this specification stop after this many records.
WindowRecords == 4
\* The clock advances by this.
WindowSteps == {31}

\* Both threads log the same category.
NextWindow ==
  \/ /\ Sum(log_count) < WindowRecords
     /\ \E t \in Threads : Log(t, INFO, "API", Hello, "none", 0)
  \/ \E t \in Threads : RateRead(t)
  \/ \E t \in Threads : RateWrite(t)
  \/ \E t \in Threads : Acquire(t)
  \/ \E t \in Threads : LogBody(t, "ok", 0)
  \/ \E t \in Threads : Return(t)
  \/ \E d \in WindowSteps : Tick(d)

SpecWindow == InitRate /\ [][NextWindow]_vars

\* C29: with ceiling N, a call of category c that the rate limit lets
\* through while the window of c is open finds fewer than N records counted
\* in the window and is counted in it as one more; so the stored count is the
\* number of records accepted in the window and never exceeds N.
C29_WindowCountsAccepted ==
  [][\A t \in Threads :
       (/\ IsRateDecision(t)
        /\ RatePassed(t)
        /\ Top(t).cat \in DOMAIN rate_limits
        /\ now - rate_limits[Top(t).cat].window_start <= Window) =>
         LET c == Top(t).cat IN
           /\ rate_limits[c].count < cfg.max_logs_per_minute
           /\ rate_limits'[c].window_start = rate_limits[c].window_start
           /\ rate_limits'[c].count = rate_limits[c].count + 1]_vars

\* ------------------------------------------------- suppressed alerts and time

\* The calls of this specification stop after this many records.
CooldownRecords == 3
\* The clock advances by half the cooldown.
CooldownSteps == {30}

\* A handler is registered for ERROR, then ERROR records arrive.
NextCooldown ==
  \/ /\ Sum(log_count) < CooldownRecords
     /\ ERROR \in DOMAIN alert_handlers
     /\ \E cat \in {"API", "SYSTEM"} :
          Log(Main, ERROR, cat, Hello, "none", 0)
  \/ Acquire(Main)
  \/ LogBody(Main, "ok", 0)
  \/ Return(Main)
  \/ \E h \in Handlers : RegisterAlertHandler(Main, ERROR, h)
  \/ \E d \in CooldownSteps : Tick(d)

SpecCooldown == InitAlert /\ [][NextCooldown]_vars

\* C30: the time kept for a pair of severity and category changes only in
\* a step that invokes the handlers for a record of the pair, and is then
\* the time of that record; so it is the time of the last record that fired.
\* A record of the pair that arrives less than the cooldown after that time
\* invokes no handler and leaves the time as it is, and a record that arrives
\* the cooldown or more after it invokes the handlers.
C30_SuppressedKeepsTime ==
  [][/\ \A t \in Threads :
          (IsCounted(t) /\ Top(t).level \in DOMAIN alert_handlers
             /\ <<LevelName[Top(t).level], Top(t).cat>>
                  \in DOMAIN alert_cooldown) =>
            LET k == <<LevelName[Top(t).level], Top(t).cat>>
                hs == alert_handlers[Top(t).level]
            IN IF now - alert_cooldown[k] >= cfg.alert_cooldown_seconds
               THEN /\ Len(alerted'[t]) = Len(hs)
                    /\ hs # <<>>
                    /\ alert_cooldown'[k] = now
               ELSE /\ alerted'[t] = <<>>
                    /\ alert_cooldown' = alert_cooldown
     /\ alert_cooldown' # alert_cooldown =>
          \E t \in Threads :
            /\ IsCounted(t)
            /\ alerted'[t] # <<>>
            /\ alert_cooldown' =
                 Put(alert_cooldown,
                     <<LevelName[Top(t).level], Top(t).cat>>, now)]_vars

C30_Witness ==
  /\ Done(Main)
  /\ Outer(Main).op = "log"
  /\ Outer(Main).cat = "API"
  /\ alerted[Main] # <<>>
  /\ now = 60
  /\ category_count["API"] = 3
  /\ alert_cooldown[<<"ERROR", "API">>] = 60

\* ------------------------------------------ one context stack, two threads

\* The calls of this specification stop after this many records.
SharedRecords == 1

\* A thread is in at most this many scopes.
MaxScopes == 1

\* The label each thread uses for its scopes.
ScopeLabel == [t \in Threads |-> IF t = "t1" THEN "A" ELSE "B"]

\* Both threads enter and leave LogContext scopes and log; t1 also calls
\* pop_context.
NextShared ==
  \/ /\ Sum(log_count) < SharedRecords
     /\ \E t \in Threads : Log(t, INFO, "API", Hello, "none", 0)
  \/ \E t \in Threads : Acquire(t)
  \/ \E t \in Threads : LogBody(t, "ok", 0)
  \/ \E t \in Threads :
       Len(scopes[t]) < MaxScopes /\ ScopeEnter(t, ScopeLabel[t])
  \/ \E t \in Threads : ScopeExit(t, FALSE)
  \/ PopContext(Main)
  \/ \E t \in Threads : Return(t)

SpecShared == InitScope /\ [][NextShared]_vars

\* The step is the entry of thread t into a scope.
IsScopeEnter(t) == Len(scopes'[t]) = Len(scopes[t]) + 1

\* C31: there is one context stack for all threads.  A scope entered by any
\* thread puts its label on top of it; a record of any thread carries all
\* its labels, those of the other thread too; and a pop or a scope exit of
\* any thread takes off its top label, whichever thread put it there.
C31_OneStackForAllThreads ==
  [][\A t \in Threads :
       /\ IsScopeEnter(t) =>
            context_stack' = Append(context_stack, ScopeLabel[t])
       /\ IsCounted(t) =>
            LET line == Uncoloured(console'[t][Len(console'[t])].line) IN
              IF context_stack = <<>>
              THEN \A i \in 1..Len(line) : line[i] \notin {"(", "A", "B"}
              ELSE InLine(line, <<"(">> \o Trail(context_stack) \o <<")">>)
       /\ (IsScopeExit(t) \/ IsCallOf(t, "pop_context")) =>
            IF context_stack = <<>> THEN context_stack' = <<>>
            ELSE Append(context_stack', context_stack[Len(context_stack)])
                   = context_stack]_vars

\* C31 witness: t1 entered its scope A, t2 entered its scope B and logged a
\* record that carries A and B, and then the exit of t1 took B off: t2 is
\* still in its scope and the stack holds the label of the scope t1 left.
C31_Witness ==
  /\ Done("t2")
  /\ Outer("t2").op = "log"
  /\ Len(RecordLines("t2")) = 1
  /\ InLine(Uncoloured(RecordLines("t2")[1].line),
            <<"(", "A", ">", "B", ")">>)
  /\ Done("t1")
  /\ Outer("t1").op = "scope_exit"
  /\ scopes["t1"] = <<>>
  /\ Len(scopes["t2"]) = 1
  /\ scopes["t2"][1].entered = <<"A">>
  /\ context_stack = <<"A">>

====
